---------------------------- MODULE Spec2Model ----------------------------
(***************************************************************************)
(* Recording pipeline of excalicord: the session controller of App.tsx     *)
(* (confirmRecording, startDesktopCaptureRecording, togglePause,           *)
(* stopRecording), the MediaRecorder fallback path, the composite audio    *)
(* mix graph, the display-capture source switch and the WebCodecsRecorder  *)
(* class of utils/webCodecsRecorder.ts.                                    *)
(*                                                                         *)
(* The application memory (React state, refs, and the browser objects the  *)
(* refs point to) is one record, app, so that a handler which calls        *)
(* several helpers in sequence is the composition of the helpers'          *)
(* operators.  Every async function is a process: its position (the await  *)
(* it is suspended at) and its locals are separate variables.  Awaits      *)
(* that complete in the same microtask run (nothing asynchronous behind    *)
(* them) are folded into the step that precedes them.                      *)
(*                                                                         *)
(* React: state set inside a click handler is rendered before the next     *)
(* input event; state set from a promise continuation, a timer or a        *)
(* native event is rendered by a later step (Render), which also runs the  *)
(* effect that copies isRecording into isRecordingRef.  Buttons are        *)
(* enabled by the rendered state (view), handlers' closures read it.       *)
(*                                                                         *)
(* Environment: results of capability probes, of the share picker and of   *)
(* encoder flushes are chosen when the code asks; a display track can end  *)
(* at any time.  The operator presses Record only when no earlier          *)
(* confirm/start/stop call is still suspended (pressing Record takes two   *)
(* clicks or a share picker; the awaits of those calls are encoder and     *)
(* audio-context round trips).                                             *)
(***************************************************************************)
EXTENDS Integers, Sequences, FiniteSets, TLC

(* ------------------------------ bounds --------------------------------- *)
\* sessions that may reach Recording in one behaviour
MaxSessions == 1
\* display-capture streams handed out by getDisplayMedia (composite mode)
MaxStreams == 1
\* attachCompositeDisplaySource calls in flight at once
MaxAttach == 1
\* dataavailable events of one MediaRecorder
MaxData == 1

StreamIds == 1..(MaxStreams + 1)
AttachIds == 1..MaxAttach

VARIABLES
  app,        \* React state, refs and the objects they point to
  view,       \* the state as last rendered: what the buttons show
  confirm,    \* confirmRecording: [pc, audio]
  desktop,    \* startDesktopCaptureRecording: [pc]
  stop,       \* stopRecording: position and locals
  attach,     \* attachCompositeDisplaySource calls, by slot
  hist        \* history: sessions, outcomes delivered, last alert

vars == <<app, view, confirm, desktop, stop, attach, hist>>

(* -------------------- WebCodecsRecorder (the object) ------------------- *)
\* a resource field: "null", "open" (allocated, connected),
\* "closed" (closed or disconnected, field still set)
NewRecorder ==
  [ isRecording |-> FALSE, isPaused |-> FALSE, hasAudio |-> FALSE,
    frameRate |-> 30, frameCount |-> 0, audioTimestamp |-> 0,
    muxer |-> "null", videoEncoder |-> "null", audioEncoder |-> "null",
    audioContext |-> "null", mediaStreamSource |-> "null",
    scriptProcessorNode |-> "null" ]

\* WebCodecsRecorder.start() resolved: audio is what shouldEnableAudio found
RecorderStarted(r, audio) ==
  [ r EXCEPT !.isRecording = TRUE, !.isPaused = FALSE, !.hasAudio = audio,
             !.frameCount = 0, !.audioTimestamp = 0,
             !.muxer = "open", !.videoEncoder = "open",
             !.audioEncoder = IF audio THEN "open" ELSE "null",
             !.audioContext = IF audio THEN "open" ELSE "null",
             !.mediaStreamSource = IF audio THEN "open" ELSE "null",
             !.scriptProcessorNode = IF audio THEN "open" ELSE "null" ]

\* selectVideoCodec: the H.264 candidates in the order they are tried
\* (lines 115-119)
candidates == << "avc1.640028", "avc1.4d4028", "avc1.42E028" >>

\* lines 126-142: the loop from candidate i on.  probe[i] is what
\* VideoEncoder.isConfigSupported does for candidate i: "supported",
\* "unsupported" or "throws"; "Error" is the throw of line 144
RECURSIVE probeFrom(_, _)
probeFrom(i, probe) ==
  IF i > Len(candidates) THEN "Error"
  ELSE IF probe[i] = "supported" THEN candidates[i]
  ELSE probeFrom(i + 1, probe)

\* mutant: the candidates are not probed
selectVideoCodecUnprobed(supportsFn, probe) == candidates[1]

\* selectVideoCodec (lines 114-145); supportsFn: isConfigSupported is a
\* function
selectVideoCodec(supportsFn, probe) ==
  IF ~supportsFn THEN candidates[1] ELSE probeFrom(1, probe)

\* mutant: the AAC configuration is not probed
shouldEnableAudioUnprobed(audioStream, audioEncoderDefined, probe) ==
  audioStream = "live" /\ audioEncoderDefined

\* shouldEnableAudio (lines 147-173).  audioStream: "none" (no stream),
\* "ended" (no live audio track in it) or "live"; probe: what
\* AudioEncoder.isConfigSupported does for AAC: "supported",
\* "unsupported", "throws", or "absent" when it is no function
shouldEnableAudio(audioStream, audioEncoderDefined, probe) ==
  IF audioStream = "none" \/ ~audioEncoderDefined THEN FALSE
  ELSE IF audioStream # "live" THEN FALSE
  ELSE IF probe = "absent" THEN TRUE
  ELSE probe = "supported"

\* line 45
warmupFrames == 5

\* mutant: pause() as a toggle
pauseToggles(r) ==
  IF ~r.isRecording THEN r ELSE [ r EXCEPT !.isPaused = ~@ ]

\* pause() (lines 280-284)
pause(r) ==
  IF ~r.isRecording \/ r.isPaused THEN r ELSE [ r EXCEPT !.isPaused = TRUE ]

\* resume() (lines 286-290)
resume(r) ==
  IF ~r.isRecording \/ ~r.isPaused THEN r ELSE [ r EXCEPT !.isPaused = FALSE ]

\* mutant: addFrame without the test of isPaused
AddFrameActiveWhilePaused(r) ==
  r.isRecording /\ r.videoEncoder # "null"

\* line 253: does addFrame go past its early return
AddFrameActive(r) ==
  r.isRecording /\ ~r.isPaused /\ r.videoEncoder # "null"

\* mutant: the warmup calls encode too
SubmitsFrameInWarmup(r) == AddFrameActive(r)

\* lines 256-259 and 262-274: does this call hand a frame to the encoder
SubmitsFrame(r) == AddFrameActive(r) /\ r.frameCount >= warmupFrames

\* mutant: the warmup calls are not taken off the index
AdjustedFrameCountsWarmup(r) == r.frameCount

\* line 262
AdjustedFrame(r) == r.frameCount - warmupFrames

\* line 263; the quotient becomes a VideoFrame timestamp, a whole number
\* of microseconds
FrameTimestamp(r) == (AdjustedFrame(r) * 1000000) \div r.frameRate

\* mutant: a keyframe once per second
KeyFrameEverySecond(r) ==
  AdjustedFrame(r) = 0 \/ AdjustedFrame(r) % r.frameRate = 0

\* line 273
KeyFrame(r) ==
  AdjustedFrame(r) = 0 \/ AdjustedFrame(r) % (r.frameRate * 2) = 0

\* addFrame (lines 252-278): the recorder after the call
addFrame(r) ==
  IF AddFrameActive(r) THEN [ r EXCEPT !.frameCount = @ + 1 ] ELSE r

\* line 215: does onaudioprocess go past its early return
AudioProcessActive(r) ==
  r.isRecording /\ ~r.isPaused /\ r.audioEncoder # "null"

\* onaudioprocess (lines 214-245); audioTimestamp is counted in buffers
\* (one buffer is 4096 samples at 48 kHz)
onaudioprocess(r) ==
  IF AudioProcessActive(r) THEN [ r EXCEPT !.audioTimestamp = @ + 1 ] ELSE r

(* --------------------------- initial memory ---------------------------- *)
NoStream == [ track |-> "none", onended |-> FALSE, audio |-> FALSE ]

InitApp(acDefined, src, recAudio, recSys) ==
  [ isRecording |-> FALSE, isPreviewing |-> FALSE, isPaused |-> FALSE,
    isConverting |-> FALSE, isRecordingRef |-> FALSE,
    settings |-> [ recordingSource |-> src, recordAudio |-> recAudio,
                   recordSystemAudio |-> recSys ],
    audioContextDefined |-> acDefined,
    activeRecordingSource |-> "composite",
    activeCompositeSource |-> "excalidraw",
    \* primary path
    webCodecsRecorderRef |-> FALSE, rec |-> NewRecorder,
    \* tick loop: animationFrameRef holds an id; rafQueued: callbacks
    \* requested and not yet run; rafRefQueued: the one whose id is held is
    \* among them; startTimer: the timeout of confirmRecording is pending
    animationFrameRef |-> FALSE, rafQueued |-> 0, rafRefQueued |-> FALSE,
    startTimer |-> FALSE,
    \* the rAF timestamp (ms) of the last composited callback, 0 for none
    lastRenderTimestampRef |-> 0,
    \* fallback path
    mediaRecorder |-> "null", mediaRecorderChunks |-> << >>, dataEvents |-> 0,
    mediaRecorderStreamRef |-> FALSE, fallbackTracks |-> "none",
    fallbackHasAudio |-> FALSE,
    \* fallbackAudioTrack: the audio track of the recorder's stream ("none",
    \* "shared": the webcam stream's own track, "cloneOfShared", "clone" of
    \* another track, "mixed": a mix destination's track);
    \* webcamTrackStopped: stop() was called on the webcam stream's track
    fallbackAudioTrack |-> "none", webcamTrackStopped |-> FALSE,
    \* composite audio mix graph
    compositeAudioContext |-> FALSE, compositeAudioDestination |-> FALSE,
    compositeMicSource |-> FALSE, compositeSystemSource |-> 0,
    micConnections |-> 0, systemConnections |-> 0,
    \* composite display capture
    \* displayVideoReady: the display video element has data to draw
    displayCaptureStream |-> 0, streams |-> [ i \in StreamIds |-> NoStream ],
    displayVideoReady |-> FALSE,
    nextStream |-> 1,
    \* desktop capture
    displayStreamRef |-> FALSE, desktopTrack |-> "none",
    desktopOnended |-> FALSE, desktopMicStreamRef |-> FALSE,
    desktopAudioContext |-> FALSE ]

ViewOf(a) ==
  [ isRecording |-> a.isRecording, isPreviewing |-> a.isPreviewing,
    isPaused |-> a.isPaused, isConverting |-> a.isConverting ]

\* a React commit: the effect of line 178 runs with the committed value
Committed(a) == [ a EXCEPT !.isRecordingRef = a.isRecording ]

\* the commit that ends a click handler; v is the state rendered before it
SyncCommit(a, v) == IF v.isRecording # a.isRecording THEN Committed(a) ELSE a


(* ------------------------------ tick loop ------------------------------ *)
\* animationFrameRef.current = requestAnimationFrame(renderCompositeFrame)
requestAnimationFrame(a) ==
  [ a EXCEPT !.animationFrameRef = TRUE, !.rafQueued = @ + 1,
             !.rafRefQueued = TRUE ]

\* lines 1651-1654: only the callback whose id is held is cancelled
cancelAnimationFrame(a) ==
  IF ~a.animationFrameRef THEN a
  ELSE [ a EXCEPT !.animationFrameRef = FALSE,
                  !.rafQueued = IF a.rafRefQueued THEN @ - 1 ELSE @,
                  !.rafRefQueued = FALSE ]

\* lines 729-734: a callback that comes before the frame interval has
\* passed (due is false) only asks for the next one
Throttled(a, viaRaf, due) == a.isRecordingRef /\ viaRaf /\ ~due

\* line 1087: is the composited canvas handed to the recorder
HandsFrame(a, viaRaf, due) ==
  ~Throttled(a, viaRaf, due) /\ a.isRecordingRef /\ a.webCodecsRecorderRef

\* mutant: the loop stops asking for frames while the recorder is paused
ReschedulesUnlessPaused(a) == a.isRecordingRef /\ ~a.rec.isPaused

\* line 1094
Reschedules(a) == a.isRecordingRef

\* renderCompositeFrame (lines 714-1097) with its canvas in place.
\* viaRaf: called by requestAnimationFrame, with a timestamp
renderCompositeFrame(a, viaRaf, due) ==
  IF Throttled(a, viaRaf, due) THEN requestAnimationFrame(a)
  ELSE LET a1 == IF HandsFrame(a, viaRaf, due)
                 THEN [ a EXCEPT !.rec = addFrame(@) ] ELSE a
       IN IF Reschedules(a1) THEN requestAnimationFrame(a1) ELSE a1

\* lines 1465-1473: the callback of confirmRecording's timeout
preRenderFrames(a) ==
  renderCompositeFrame(
    renderCompositeFrame(
      renderCompositeFrame(a, FALSE, TRUE), FALSE, TRUE), FALSE, TRUE)

\* RECORDING_RENDER_FPS (line 25)
RECORDING_RENDER_FPS == 30

\* line 731: elapsed < RECORDING_FRAME_INTERVAL_MS, that is 1000 / 30 ms;
\* elapsed is in whole milliseconds
WithinFrameInterval(elapsed) == elapsed * RECORDING_RENDER_FPS < 1000

\* mutant: no gate, every callback is due
DueAlways(a, now) == TRUE

\* lines 730-731: the frame interval has passed since the last composited
\* callback, or there was none (the ref is 0)
Due(a, now) ==
  ~(a.lastRenderTimestampRef # 0
      /\ WithinFrameInterval(now - a.lastRenderTimestampRef))

\* which of its three exits a call takes: "nocanvas" (line 720),
\* "skipped" (line 731) or "composited" (to the end)
TickExit(a, canvasOk, viaRaf, now) ==
  IF ~canvasOk THEN "nocanvas"
  ELSE IF Throttled(a, viaRaf, Due(a, now)) THEN "skipped"
  ELSE "composited"

\* renderCompositeFrame(rafTimestamp) as a whole.  canvasOk: the canvas and
\* its 2d context exist; viaRaf: rafTimestamp is a number, and then now is
\* that number, else now is performance.now()
renderCompositeFrameAt(a, canvasOk, viaRaf, now) ==
  IF ~canvasOk
  THEN IF a.isRecordingRef THEN requestAnimationFrame(a) ELSE a
  ELSE LET due == Due(a, now)
           a1 == IF a.isRecordingRef /\ viaRaf /\ due
                 THEN [ a EXCEPT !.lastRenderTimestampRef = now ] ELSE a
       IN renderCompositeFrame(a1, viaRaf, due)

\* mutant: the display is drawn without looking at the video element
canDrawDisplaySourceUnready(a, videoReady) ==
  a.activeCompositeSource = "display"

\* lines 843-850; videoReady: the display video element has data to draw
\* (readyState >= 2 and a size)
canDrawDisplaySource(a, videoReady) ==
  a.activeCompositeSource = "display" /\ videoReady

\* lines 853-888: the visual sources a composited frame draws.
\* sceneReady: the whiteboard, the frame and its rectangle are there
DrawnSources(a, videoReady, sceneReady) ==
  IF canDrawDisplaySource(a, videoReady) THEN {"display"}
  ELSE IF sceneReady THEN {"excalidraw"}
  ELSE {}

\* lines 892-896: the text being typed is drawn over the frame.
\* editing: a text editor with text is open on the whiteboard
DrawsTextOverlay(a, videoReady, sceneReady, editing) ==
  ~canDrawDisplaySource(a, videoReady) /\ sceneReady /\ editing

(* ------------------------- helpers of App.tsx -------------------------- *)
\* mutant: the stream let go of keeps its live tracks and its listener
StopStreamLeavesLive(ss, id) == ss

\* track.onended = null; track.stop()  on every track of stream id
StopStream(ss, id) ==
  [ ss EXCEPT ![id] = [ @ EXCEPT !.onended = FALSE,
                                 !.track = IF @ = "live" THEN "stopped" ELSE @ ] ]

\* mutant: the nodes of the attached system track stay connected
detachCompositeSystemAudioKeeps(a) == a

\* lines 407-413; the counters count the gain nodes connected to a mix
\* destination
detachCompositeSystemAudio(a) ==
  [ a EXCEPT !.systemConnections =
                IF a.compositeSystemSource # 0 THEN @ - 1 ELSE @,
             !.compositeSystemSource = 0 ]

\* synchronous part of cleanupCompositeAudioPipeline; the part behind the
\* await (closeCompositeAudioContext) has already dropped the context ref
cleanupCompositeAudioPipeline(a) ==
  LET d == detachCompositeSystemAudio(a) IN
  [ d EXCEPT !.micConnections = IF d.compositeMicSource THEN @ - 1 ELSE @,
             !.compositeMicSource = FALSE,
             !.compositeAudioDestination = FALSE,
             !.compositeAudioContext = FALSE ]

\* does cleanupCompositeAudioPipeline suspend on audioContext.close() ?
ClosesCompositeContext(a) == a.compositeAudioContext

cleanupCompositeDisplayCapture(a, stopTracks) ==
  LET id == a.displayCaptureStream
      ss == IF id = 0 THEN a.streams
            ELSE IF stopTracks THEN StopStream(a.streams, id)
            ELSE [ a.streams EXCEPT ![id].onended = FALSE ]
  IN detachCompositeSystemAudio(
       [ a EXCEPT !.streams = ss, !.displayCaptureStream = 0,
                  !.displayVideoReady = FALSE ])

\* mutant: selecting a source also pauses the session
setCompositeSourcePausing(a, source) ==
  [ a EXCEPT !.activeCompositeSource = source, !.isPaused = TRUE,
             !.rec.isPaused = TRUE,
             !.mediaRecorder = IF @ = "recording" THEN "paused" ELSE @ ]

\* setCompositeSource (lines 1100-1111)
setCompositeSource(a, source) == [ a EXCEPT !.activeCompositeSource = source ]

\* synchronous part of cleanupDesktopCapture (closeDesktopAudioContext
\* drops the ref before it awaits close())
cleanupDesktopCapture(a) ==
  [ a EXCEPT !.desktopTrack =
                IF a.displayStreamRef /\ @ = "live" THEN "stopped" ELSE @,
             !.desktopOnended = IF a.displayStreamRef THEN FALSE ELSE @,
             !.displayStreamRef = FALSE,
             !.desktopMicStreamRef = FALSE,
             !.desktopAudioContext = FALSE ]

ClosesDesktopContext(a) == a.desktopAudioContext

\* mutant: the track itself is handed on instead of a clone
cloneShares(track) == track

\* MediaStreamTrack.clone(): a new track; stopping it leaves the original
\* live
clone(track) ==
  IF track = "none" THEN "none"
  ELSE IF track = "shared" THEN "cloneOfShared"
  ELSE "clone"

\* track.stop() on every track of a stream whose audio track is audioTrack
stopStreamTracks(a, audioTrack) ==
  [ a EXCEPT !.webcamTrackStopped = @ \/ audioTrack = "shared" ]

\* startMediaRecorderFromStream: audioTrack is the audio track of the stream
\* ("none" without one); outcome is "undefined" (no MediaRecorder),
\* "throws" (constructor or start throws) or "ok"
startMediaRecorderFromStream(a, audioTrack, outcome) ==
  IF outcome = "undefined" THEN a
  ELSE IF outcome = "ok" THEN
    [ a EXCEPT !.mediaRecorder = "recording", !.mediaRecorderChunks = << >>,
               !.dataEvents = 0, !.mediaRecorderStreamRef = TRUE,
               !.fallbackTracks = "live",
               !.fallbackHasAudio = audioTrack # "none",
               !.fallbackAudioTrack = audioTrack ]
  ELSE
    [ stopStreamTracks(a, audioTrack) EXCEPT
               !.mediaRecorder = "null", !.mediaRecorderChunks = << >>,
               !.mediaRecorderStreamRef = FALSE,
               !.fallbackTracks = "stopped",
               !.fallbackHasAudio = audioTrack # "none",
               !.fallbackAudioTrack = audioTrack ]

\* startMediaRecorder: the canvas stream plus a clone of the live audio track
\* of audioStream
startMediaRecorder(a, audioTrack, outcome) ==
  startMediaRecorderFromStream(a, clone(audioTrack), outcome)

\* the cleanup closure of stopMediaRecorder
stopMediaRecorderCleanup(a) ==
  [ (IF a.mediaRecorderStreamRef THEN stopStreamTracks(a, a.fallbackAudioTrack)
     ELSE a) EXCEPT
             !.fallbackTracks =
                IF a.mediaRecorderStreamRef /\ @ = "live" THEN "stopped" ELSE @,
             !.mediaRecorder = "null",
             !.mediaRecorderStreamRef = FALSE ]

\* mutant: buildBlob loses the chunks
buildBlobEmpty(a) == << >>

\* buildBlob: null (<< >>) when no chunk was kept
buildBlob(a) == a.mediaRecorderChunks


(* ------------------------------ history -------------------------------- *)
\* What an observer of the page has seen.  session: sessions that reached
\* Recording so far (the current one is the last); outcomes: per session,
\* what stopRecording handed over (a download or the failure alert) and
\* what was true when it did; started: the encoder paths that started for
\* the current session; lastAlert: the start-up error the operator was
\* shown last ("StartFailed"), until the next press of Record
InitHist ==
  [ session |-> 0, outcomes |-> [ i \in 1..MaxSessions |-> << >> ],
    cap |-> MaxSessions, streamCap |-> MaxStreams,
    started |-> {}, lastAlert |-> "none" ]

\* alert(msg); only the start-up failure is remembered
Alert(h, msg) ==
  [ h EXCEPT !.lastAlert = IF msg = "StartFailed" THEN msg ELSE @ ]

\* what is true as stopRecording hands over its result out:
\* P, F: the primary / the fallback stop returned a blob; A: audio is wanted
\* and the primary recorder had none; fallbackAudio: the fallback stream
\* carried an audio track; chunks: chunks the fallback kept; stopThrew:
\* MediaRecorder.stop() threw; blob: what stopMediaRecorder resolved with
\* (<< >> is null)
Delivery(a, s, h, out) ==
  [ out |-> out, source |-> s.source,
    P |-> s.mp4Blob, F |-> s.fallbackBlob # << >>,
    A |-> a.settings.recordAudio
            /\ ~("webcodecs" \in h.started /\ a.rec.hasAudio),
    fallbackAudio |-> a.fallbackHasAudio,
    chunks |-> Len(a.mediaRecorderChunks),
    stopThrew |-> s.stopThrew,
    started |-> h.started,
    blob |-> s.fallbackBlob ]

\* downloadBlob(blob, ext) or the alert 'Failed to save recording'
Deliver(h, d) ==
  [ h EXCEPT !.outcomes[h.session] = Append(@, d) ]

(* --------------------------- stopRecording ----------------------------- *)
\* locals of the stopRecording call in flight
IdleStop ==
  [ pc |-> "idle", source |-> "composite", mp4Blob |-> FALSE,
    mp4Error |-> FALSE, webCodecsHasAudio |-> FALSE, fallbackBlob |-> << >>,
    stopThrew |-> FALSE ]

\* a step of a process yields the memory, the process and the history
St(a, s, h) == [ a |-> a, s |-> s, h |-> h ]

\* mutant: the audio preference no longer asks for a fallback blob
ReconcileOutputNoBlobTest(mp4Blob, fallbackBlob, recordAudio, webCodecsHasAudio) ==
  LET prefersAudioFallback == recordAudio /\ ~webCodecsHasAudio IN
  IF mp4Blob /\ ~prefersAudioFallback THEN "mp4"
  ELSE IF fallbackBlob # << >> THEN "webm"
  ELSE "failed"

\* lines 1696-1711: which output is kept
ReconcileOutput(mp4Blob, fallbackBlob, recordAudio, webCodecsHasAudio) ==
  LET prefersAudioFallback == recordAudio /\ ~webCodecsHasAudio IN
  IF mp4Blob /\ ~(prefersAudioFallback /\ fallbackBlob # << >>) THEN "mp4"
  ELSE IF fallbackBlob # << >> THEN "webm"
  ELSE "failed"

\* lines 1664-1675 (desktop) after the last await
StopDesktopFinish(a, s, h) ==
  St([ setCompositeSource(a, "excalidraw") EXCEPT !.isConverting = FALSE ],
     IdleStop,
     Deliver(h, Delivery(a, s, h, IF s.fallbackBlob # << >> THEN "webm"
                                  ELSE "failed")))

\* lines 1662-1663 (desktop)
StopDesktopAfterClose(a, s, h) ==
  LET a1 == cleanupCompositeDisplayCapture(a, TRUE)
      a2 == cleanupCompositeAudioPipeline(a1) IN
  IF ClosesCompositeContext(a1)
  THEN St(a2, [ s EXCEPT !.pc = "dTail" ], h)
  ELSE StopDesktopFinish(a2, s, h)

\* line 1717 after the last await (composite)
StopCompositeFinish(a, s, h) ==
  St(setCompositeSource(a, "excalidraw"), IdleStop, h)

\* lines 1696-1716 (composite): reconcile, deliver, release
StopCompositeReconcile(a, s, h) ==
  LET out == ReconcileOutput(s.mp4Blob, s.fallbackBlob,
                             a.settings.recordAudio, s.webCodecsHasAudio)
      a1 == cleanupCompositeDisplayCapture(
              [ a EXCEPT !.isConverting = FALSE ], TRUE)
      a2 == cleanupCompositeAudioPipeline(a1) IN
  IF ClosesCompositeContext(a1)
  THEN St(a2, [ s EXCEPT !.pc = "tail" ], Deliver(h, Delivery(a, s, h, out)))
  ELSE StopCompositeFinish(a2, s, Deliver(h, Delivery(a, s, h, out)))

\* stopMediaRecorder has resolved with blob
StopAfterMediaRecorder(a, s, h, blob) ==
  LET s1 == [ s EXCEPT !.fallbackBlob = blob ] IN
  IF s.source = "desktop"
  THEN IF ClosesDesktopContext(a)
       THEN St(cleanupDesktopCapture(a), [ s1 EXCEPT !.pc = "dClose" ], h)
       ELSE StopDesktopAfterClose(cleanupDesktopCapture(a), s1, h)
  ELSE StopCompositeReconcile(a, s1, h)

\* stopMediaRecorder up to its await; throws: recorder.stop() throws
stopMediaRecorder(a, s, h, throws) ==
  IF a.mediaRecorder = "null"
  THEN StopAfterMediaRecorder(stopMediaRecorderCleanup(a), s, h, << >>)
  ELSE IF a.mediaRecorder = "inactive"
  THEN StopAfterMediaRecorder(stopMediaRecorderCleanup(a), s, h, buildBlob(a))
  ELSE IF throws
  THEN StopAfterMediaRecorder(stopMediaRecorderCleanup(a),
                              [ s EXCEPT !.stopThrew = TRUE ], h, << >>)
  ELSE St([ a EXCEPT !.mediaRecorder = "stopping" ],
          [ s EXCEPT !.pc = "mrStop" ], h)

\* lines 1686-1692: recorder.stop() settled; finally drops the handle
StopAfterWebCodecs(a, s, h, ok, throws) ==
  stopMediaRecorder([ a EXCEPT !.webCodecsRecorderRef = FALSE ],
                    [ s EXCEPT !.mp4Blob = ok, !.mp4Error = ~ok ], h, throws)


(* ---------------------- WebCodecsRecorder.stop() ----------------------- *)
\* lines 297-298
RecStopBegin(r) == [ r EXCEPT !.isRecording = FALSE ]

\* lines 302-303: the video flush resolved, the encoder is closed
RecVideoFlushed(r) == [ r EXCEPT !.videoEncoder = "closed" ]

\* lines 307-308
RecAudioFlushed(r) == [ r EXCEPT !.audioEncoder = "closed" ]

\* lines 312-315: disconnect and drop the capture nodes
RecDisconnect(r) ==
  [ r EXCEPT !.scriptProcessorNode = "null", !.mediaStreamSource = "null" ]

\* lines 320-323, after audioContext.close()
RecRelease(r) ==
  [ r EXCEPT !.audioContext = "null", !.audioEncoder = "null",
             !.videoEncoder = "null" ]

\* lines 330-335: finalize succeeded
RecFinalized(r) == [ r EXCEPT !.muxer = "null" ]

\* lines 312-339 when there is no audio context to close
\* (ok: muxer.finalize() does not throw)
RecFinish(r, ok) ==
  IF ok THEN RecFinalized(RecRelease(r)) ELSE RecRelease(r)

\* the handle and the object as stopRecording begins the primary stop
HasLiveRecorder(a) == a.webCodecsRecorderRef /\ a.rec.isRecording

\* mutant: stopRecording without its guard
StopGuardNever(a) == FALSE

\* lines 1622-1624: a call that finds no session to stop returns at once
StopGuard(a) == ~a.isRecordingRef

\* lines 1645-1656 of stopRecording: the flags and the tick loop
StopBegin(a) ==
  cancelAnimationFrame(
    [ a EXCEPT !.isRecordingRef = FALSE, !.isRecording = FALSE,
               !.isPaused = FALSE, !.isConverting = TRUE,
               !.lastRenderTimestampRef = 0 ])

\* stopRecording from its first line to its first await.
\* throws: recorder.stop() of the MediaRecorder throws
stopRecording(a, s, h, throws) ==
  IF StopGuard(a) THEN St(a, s, h)
  ELSE
    LET a1 == StopBegin(a)
        s1 == [ IdleStop EXCEPT !.source = a.activeRecordingSource ] IN
    IF s1.source = "desktop" THEN stopMediaRecorder(a1, s1, h, throws)
    ELSE IF HasLiveRecorder(a1)
    THEN St([ a1 EXCEPT !.rec = RecStopBegin(@) ],
            [ s1 EXCEPT !.pc = "videoFlush",
                        !.webCodecsHasAudio = a1.rec.hasAudio ], h)
    ELSE stopMediaRecorder(a1, s1, h, throws)

\* apply the outcome of a step of stopRecording
Apply(m) == app' = m.a /\ stop' = m.s /\ hist' = m.h

\* the Stop button (RecordingControls, rendered while isRecording)
StopClick ==
  /\ view.isRecording /\ ~view.isConverting
  /\ \E throws \in BOOLEAN :
       Apply(stopRecording(app, stop, hist, throws))
  /\ view' = IF app' = app THEN view ELSE ViewOf(app')
  /\ UNCHANGED <<confirm, desktop, attach>>

\* videoEncoder.flush() settled (line 302)
StopVideoFlushed ==
  /\ stop.pc = "videoFlush"
  /\ \E ok \in BOOLEAN, fin \in BOOLEAN, throws \in BOOLEAN :
       IF ~ok THEN Apply(StopAfterWebCodecs(app, stop, hist, FALSE, throws))
       ELSE LET r1 == RecVideoFlushed(app.rec) IN
         IF r1.audioEncoder # "null"
         THEN Apply(St([ app EXCEPT !.rec = r1 ],
                       [ stop EXCEPT !.pc = "audioFlush" ], hist))
         ELSE Apply(StopAfterWebCodecs(
                      [ app EXCEPT !.rec = RecFinish(RecDisconnect(r1), fin) ],
                      stop, hist, fin, throws))
  /\ UNCHANGED <<view, confirm, desktop, attach>>

\* audioEncoder.flush() settled (line 307)
StopAudioFlushed ==
  /\ stop.pc = "audioFlush"
  /\ \E ok \in BOOLEAN, throws \in BOOLEAN :
       IF ~ok THEN Apply(StopAfterWebCodecs(app, stop, hist, FALSE, throws))
       ELSE Apply(St([ app EXCEPT !.rec = RecDisconnect(RecAudioFlushed(@)) ],
                     [ stop EXCEPT !.pc = "wcClose" ], hist))
  /\ UNCHANGED <<view, confirm, desktop, attach>>

\* the recorder's audioContext.close() resolved (line 318)
StopRecorderContextClosed ==
  /\ stop.pc = "wcClose"
  /\ \E fin \in BOOLEAN, throws \in BOOLEAN :
       Apply(StopAfterWebCodecs([ app EXCEPT !.rec = RecFinish(@, fin) ],
                                stop, hist, fin, throws))
  /\ UNCHANGED <<view, confirm, desktop, attach>>


(* ------------------------ MediaRecorder events ------------------------- *)
\* mutant: a new chunk goes to the front of the list
OnDataAvailablePrepends(a, nonEmpty) ==
  [ a EXCEPT !.dataEvents = @ + 1,
             !.mediaRecorderChunks =
                IF nonEmpty THEN << a.dataEvents + 1 >> \o @ ELSE @ ]

\* ondataavailable (lines 551-555): empty blobs are dropped
OnDataAvailable(a, nonEmpty) ==
  [ a EXCEPT !.dataEvents = @ + 1,
             !.mediaRecorderChunks =
                IF nonEmpty THEN Append(@, a.dataEvents + 1) ELSE @ ]

\* the timeslice of recorder.start(1000) elapsed
MediaRecorderData ==
  /\ app.mediaRecorder = "recording"
  /\ app.dataEvents < MaxData
  /\ \E nonEmpty \in BOOLEAN : app' = OnDataAvailable(app, nonEmpty)
  /\ UNCHANGED <<view, confirm, desktop, stop, attach, hist>>

\* the last dataavailable of a stopped recorder, when it has anything to say
FinalData(a, nonEmpty) ==
  IF a.dataEvents < MaxData THEN OnDataAvailable(a, nonEmpty) ELSE a

\* the recorder's 'stop' event: onStop of stopMediaRecorder (lines 661-665)
StopMediaRecorderStopped ==
  /\ stop.pc = "mrStop"
  /\ \E nonEmpty \in BOOLEAN :
       LET a1 == FinalData(app, nonEmpty) IN
       Apply(StopAfterMediaRecorder(stopMediaRecorderCleanup(a1), stop, hist,
                                    buildBlob(a1)))
  /\ UNCHANGED <<view, confirm, desktop, attach>>

\* desktop mode: every track of the recorded stream has ended, the
\* MediaRecorder stops by itself
MediaRecorderInactive ==
  /\ app.activeRecordingSource = "desktop"
  /\ app.mediaRecorder \in {"recording", "paused"}
  /\ app.desktopTrack = "ended" /\ ~app.fallbackHasAudio
  /\ \E nonEmpty \in BOOLEAN :
       app' = [ FinalData(app, nonEmpty) EXCEPT !.mediaRecorder = "inactive" ]
  /\ UNCHANGED <<view, confirm, desktop, stop, attach, hist>>

\* desktopAudioContext.close() resolved (line 1661)
StopDesktopClosed ==
  /\ stop.pc = "dClose"
  /\ Apply(StopDesktopAfterClose(app, stop, hist))
  /\ UNCHANGED <<view, confirm, desktop, attach>>

\* compositeAudioContext.close() resolved, desktop mode (line 1663)
StopDesktopTail ==
  /\ stop.pc = "dTail"
  /\ Apply(StopDesktopFinish(app, stop, hist))
  /\ UNCHANGED <<view, confirm, desktop, attach>>

\* compositeAudioContext.close() resolved, composite mode (line 1716)
StopTail ==
  /\ stop.pc = "tail"
  /\ Apply(StopCompositeFinish(app, stop, hist))
  /\ UNCHANGED <<view, confirm, desktop, attach>>

(* ------------------------------- React --------------------------------- *)
\* a commit of state set outside a click handler, and the effect of
\* line 178 when isRecording changed
Render ==
  /\ view # ViewOf(app)
  /\ view' = ViewOf(app)
  /\ app' = SyncCommit(app, view)
  /\ UNCHANGED <<confirm, desktop, stop, attach, hist>>

\* togglePause (lines 1599-1618); isPaused is the closure's value
togglePause(a, isPaused) ==
  IF isPaused
  THEN [ a EXCEPT !.rec = IF a.webCodecsRecorderRef THEN resume(@) ELSE @,
                  !.mediaRecorder = IF @ = "paused" THEN "recording" ELSE @,
                  !.isPaused = FALSE ]
  ELSE [ a EXCEPT !.rec = IF a.webCodecsRecorderRef THEN pause(@) ELSE @,
                  !.mediaRecorder = IF @ = "recording" THEN "paused" ELSE @,
                  !.isPaused = TRUE ]

\* the Pause / Resume button
TogglePause ==
  /\ view.isRecording /\ ~view.isConverting
  /\ app' = SyncCommit(togglePause(app, view.isPaused), view)
  /\ view' = ViewOf(app')
  /\ UNCHANGED <<confirm, desktop, stop, attach, hist>>


(* -------------------------- confirmRecording --------------------------- *)
IdleConfirm == [ pc |-> "idle", audio |-> "none" ]

Cf(a, c, h) == [ a |-> a, c |-> c, h |-> h ]

\* lines 1380-1385
ConfirmBegin(a) ==
  cleanupCompositeDisplayCapture(
    setCompositeSource([ a EXCEPT !.isPreviewing = FALSE,
                                  !.activeRecordingSource = "composite" ],
                       "excalidraw"),
    TRUE)

\* line 431: does createCompositeAudioPipeline build a graph at all
WantsPipeline(a) ==
  (a.settings.recordAudio \/ a.settings.recordSystemAudio)
    /\ a.audioContextDefined

\* lines 437-474: ctxOk: new AudioContext() and resume() succeed;
\* micLive: the webcam stream has a live audio track
createCompositeAudioPipeline(a, ctxOk, micLive) ==
  LET c == cleanupCompositeAudioPipeline(a)
      mic == a.settings.recordAudio /\ micLive IN
  IF ~ctxOk THEN c
  ELSE [ c EXCEPT !.compositeAudioContext = TRUE,
                  !.compositeAudioDestination = TRUE,
                  !.compositeMicSource = mic,
                  !.micConnections = IF mic THEN @ + 1 ELSE @ ]

\* lines 1395-1404: the audio stream handed to both recorders:
\* the mix ("mixed"), a clone of the microphone track ("mic") or none
CompositeAudioStream(a, built, micLive) ==
  IF built THEN "mixed"
  ELSE IF a.settings.recordAudio /\ micLive THEN "mic"
  ELSE "none"

\* the audio track of that stream: the mix destination's track, or
\* micTrack.clone() of the webcam stream's track (line 1402)
CompositeAudioTrack(audio) ==
  IF audio = "mic" THEN clone("shared") ELSE audio

\* mutant: the abort of line 1436 is skipped
BothFailedNever(webCodecsStarted, mediaRecorderStarted) == FALSE

\* line 1436: no encoder path started
BothFailed(webCodecsStarted, mediaRecorderStarted) ==
  ~webCodecsStarted /\ ~mediaRecorderStarted

\* lines 1434-1474: webCodecsStarted is known, the fallback is started
\* (mr is what startMediaRecorder meets), the session starts or aborts
ConfirmFinish(a, c, h, webCodecsStarted, mr) ==
  LET a1 == startMediaRecorder(a, CompositeAudioTrack(c.audio), mr)
      mediaRecorderStarted == (mr = "ok") IN
  IF BothFailed(webCodecsStarted, mediaRecorderStarted)
  THEN Cf(a1, IdleConfirm, Alert(h, "StartFailed"))
  ELSE Cf([ a1 EXCEPT !.isRecording = TRUE, !.startTimer = TRUE,
                      !.lastRenderTimestampRef = 0 ],
          IdleConfirm,
          [ h EXCEPT !.session = @ + 1,
                     !.started = (IF webCodecsStarted THEN {"webcodecs"} ELSE {})
                          \cup (IF mediaRecorderStarted THEN {"mediarecorder"} ELSE {}),
                     !.lastAlert = "none" ])

\* lines 1406-1431 up to the await of recorder.start()
\* (supported: isWebCodecsSupported())
ConfirmPrimary(a, c, h, supported, mr) ==
  IF supported
  THEN Cf([ a EXCEPT !.webCodecsRecorderRef = TRUE, !.rec = NewRecorder ],
          [ c EXCEPT !.pc = "start" ], h)
  ELSE ConfirmFinish(a, c, h, FALSE, mr)

ApplyC(m) == app' = m.a /\ confirm' = m.c /\ hist' = m.h

\* the operator starts a session from a settled screen: no session-start
\* or stop call is suspended, and what they set has been rendered
Quiet ==
  /\ confirm.pc = "idle" /\ desktop.pc = "idle" /\ stop.pc = "idle"
  /\ view = ViewOf(app)

\* the Start Recording button of the preview (confirmRecording)
ConfirmRecording ==
  /\ view.isPreviewing /\ ~view.isRecording /\ ~view.isConverting
  /\ confirm.pc = "idle"
  /\ hist.session < hist.cap
  /\ LET a1 == ConfirmBegin(app) IN
     IF WantsPipeline(a1)
     THEN ApplyC(Cf(cleanupCompositeAudioPipeline(a1),
                    [ IdleConfirm EXCEPT !.pc = "audio" ], hist))
     ELSE \E micLive \in BOOLEAN, supported \in BOOLEAN,
             mr \in {"undefined", "throws", "ok"} :
       LET m == ConfirmPrimary(a1,
                  [ IdleConfirm EXCEPT
                      !.audio = CompositeAudioStream(a1, FALSE, micLive) ],
                  hist, supported, mr) IN
       ApplyC(Cf(SyncCommit(m.a, view), m.c, m.h))
  /\ view' = ViewOf(app')
  /\ UNCHANGED <<desktop, stop, attach>>

\* the audio context is ready (or could not be created): lines 437-474
ConfirmAudioReady ==
  /\ confirm.pc = "audio"
  /\ \E ctxOk \in BOOLEAN, micLive \in BOOLEAN, supported \in BOOLEAN,
        mr \in {"undefined", "throws", "ok"} :
       LET a1 == createCompositeAudioPipeline(app, ctxOk, micLive) IN
       ApplyC(ConfirmPrimary(a1,
                [ confirm EXCEPT
                    !.audio = CompositeAudioStream(a1, ctxOk, micLive) ],
                hist, supported, mr))
  /\ UNCHANGED <<view, desktop, stop, attach>>

\* recorder.start() settled (lines 1423-1430): it threw, or it started
\* with or without audio (audio needs a live track in the stream it got)
ConfirmStartSettled ==
  /\ confirm.pc = "start"
  /\ \E result \in {"throws", "video", "audio"},
        mr \in {"undefined", "throws", "ok"} :
       /\ result = "audio" => confirm.audio # "none"
       /\ IF result = "throws"
          THEN ApplyC(ConfirmFinish([ app EXCEPT !.webCodecsRecorderRef = FALSE ],
                                    confirm, hist, FALSE, mr))
          ELSE ApplyC(ConfirmFinish(
                 [ app EXCEPT !.rec = RecorderStarted(@, result = "audio") ],
                 confirm, hist, TRUE, mr))
  /\ UNCHANGED <<view, desktop, stop, attach>>


(* -------------------- startDesktopCaptureRecording --------------------- *)
IdleDesktop == [ pc |-> "idle" ]

\* lines 1267-1309: is there an audio track for the recorder.
\* mic: "none", "webcam" (the shared stream's track) or "own" (getUserMedia);
\* sys: the capture carries a live audio track
DesktopHasAudio(a, mic, sys) ==
  (a.settings.recordAudio /\ mic # "none")
    \/ (a.settings.recordSystemAudio /\ sys)

\* lines 1289-1295: the two tracks are mixed in an AudioContext of its own
DesktopMixes(a, mic, sys) ==
  a.settings.recordAudio /\ a.settings.recordSystemAudio
    /\ mic # "none" /\ sys /\ a.audioContextDefined

\* lines 1287-1303: recorderAudioTrack, the mixed track or a clone of the
\* microphone track (the webcam stream's or the one acquired here) or of
\* the system audio track
DesktopRecorderAudioTrack(a, mic, sys, mixOk) ==
  LET micAudioTrack == IF ~a.settings.recordAudio \/ mic = "none" THEN "none"
                       ELSE IF mic = "webcam" THEN "shared" ELSE "own"
      systemAudioTrack == IF a.settings.recordSystemAudio /\ sys
                          THEN "system" ELSE "none"
  IN
  IF DesktopMixes(a, mic, sys) /\ mixOk THEN "mixed"
  ELSE IF micAudioTrack # "none" THEN clone(micAudioTrack)
  ELSE clone(systemAudioTrack)

\* mutant: desktop capture opens the preview like the whiteboard does
DesktopStartPreviews(a, h, mic, sys, mixOk, mr) ==
  [ a |-> [ a EXCEPT !.isPreviewing = TRUE ], h |-> h ]

\* lines 1267-1344 after the capture was granted with a live video track
DesktopStart(a, h, mic, sys, mixOk, mr) ==
  LET a1 == [ a EXCEPT
                !.desktopMicStreamRef =
                   a.settings.recordAudio /\ mic = "own",
                !.desktopAudioContext = DesktopMixes(a, mic, sys) /\ mixOk ]
      a2 == startMediaRecorderFromStream(a1,
                DesktopRecorderAudioTrack(a, mic, sys, mixOk), mr)
  IN
  IF mr # "ok"
  THEN [ a |-> cleanupDesktopCapture(a2), h |-> Alert(h, "StartFailed") ]
  ELSE [ a |-> [ a2 EXCEPT !.desktopOnended = TRUE,
                           !.activeRecordingSource = "desktop",
                           !.isPreviewing = FALSE, !.isPaused = FALSE,
                           !.isRecording = TRUE ],
         h |-> [ h EXCEPT !.session = @ + 1, !.started = {"mediarecorder"},
                          !.lastAlert = "none" ] ]

\* the Record button: startRecording (lines 1360-1366)
StartRecording ==
  /\ ~view.isRecording /\ ~view.isPreviewing /\ ~view.isConverting
  /\ Quiet
  /\ hist.session < hist.cap
  /\ IF app.settings.recordingSource = "desktop"
     THEN \E available \in BOOLEAN :
            IF available
            THEN /\ app' = cleanupDesktopCapture(app)
                 /\ desktop' = [ pc |-> "pick" ]
            ELSE UNCHANGED <<app, desktop>>
     ELSE /\ app' = [ app EXCEPT !.isPreviewing = TRUE ]
          /\ UNCHANGED desktop
  /\ hist' = [ hist EXCEPT !.lastAlert = "none" ]
  /\ view' = ViewOf(app')
  /\ UNCHANGED <<confirm, stop, attach>>

\* cancelPreview (lines 1369-1373)
CancelPreview ==
  /\ view.isPreviewing /\ ~view.isRecording /\ ~view.isConverting
  /\ confirm.pc = "idle"
  /\ app' = [ app EXCEPT !.isPreviewing = FALSE ]
  /\ view' = ViewOf(app')
  /\ UNCHANGED <<confirm, desktop, stop, attach, hist>>

\* getDisplayMedia settled (lines 1243-1265) and, when it gave a live video
\* track, the audio set-up and the recorder start (lines 1267-1344)
DesktopPicked ==
  /\ desktop.pc = "pick"
  /\ desktop' = IdleDesktop
  /\ \E result \in {"denied", "noVideo", "ok"} :
       IF result = "denied" THEN UNCHANGED <<app, hist>>
       ELSE IF result = "noVideo"
       THEN /\ app' = cleanupDesktopCapture([ app EXCEPT !.displayStreamRef = TRUE ])
            /\ hist' = hist
       ELSE \E mic \in {"none", "webcam", "own"}, sys \in BOOLEAN,
               mixOk \in BOOLEAN, mr \in {"undefined", "throws", "ok"} :
         LET m == DesktopStart([ app EXCEPT !.displayStreamRef = TRUE,
                                            !.desktopTrack = "live" ],
                               hist, mic, sys, mixOk, mr) IN
         app' = m.a /\ hist' = m.h
  /\ UNCHANGED <<view, confirm, stop, attach>>

\* the captured display track ends (the operator stops sharing):
\* onended of lines 1323-1327 calls stopRecording
DesktopTrackEnded ==
  /\ app.desktopTrack = "live"
  /\ LET a1 == [ app EXCEPT !.desktopTrack = "ended" ] IN
     IF app.desktopOnended
     THEN \E throws \in BOOLEAN :
            Apply(stopRecording(a1, stop, hist, throws))
     ELSE app' = a1 /\ UNCHANGED <<stop, hist>>
  /\ UNCHANGED <<view, confirm, desktop, attach>>

\* the settings panel, reachable while idle (its button is disabled during
\* preview, recording and conversion); settings that no session can use
\* any more are not tried
ChangeSettings ==
  /\ ~view.isRecording /\ ~view.isPreviewing /\ ~view.isConverting
  /\ Quiet
  /\ hist.session < hist.cap
  /\ \E src \in {"composite", "desktop"}, ra \in BOOLEAN, rs \in BOOLEAN :
       app' = [ app EXCEPT !.settings = [ recordingSource |-> src,
                                          recordAudio |-> ra,
                                          recordSystemAudio |-> rs ] ]
  /\ UNCHANGED <<view, confirm, desktop, stop, attach, hist>>


(* ------------------- composite display-capture source ------------------ *)
\* a call of attachCompositeDisplaySource: where it is suspended, the stream
\* it was granted, and what the last call in this slot returned
IdleAttach == [ pc |-> "idle", stream |-> 0, result |-> "none" ]

Returned(value) == [ IdleAttach EXCEPT !.result = value ]

\* mutant: a refused request lets go of the capture held
AttachRejectedReleases(a) == cleanupCompositeDisplayCapture(a, TRUE)

\* lines 1131-1173: the exits that return false touch no ref at all (the
\* stream refused for want of a live video track is stopped, it was never
\* held)
AttachRejected(a) == a

\* attachCompositeSystemAudio (lines 477-504); track: the stream whose live
\* audio track is passed, 0 for null; ok: the graph nodes can be created
attachCompositeSystemAudio(a, track, ok) ==
  LET d == detachCompositeSystemAudio(a) IN
  IF track = 0 \/ ~d.settings.recordSystemAudio THEN d
  ELSE IF ~d.compositeAudioContext \/ ~d.compositeAudioDestination THEN d
  ELSE IF ~ok THEN d
  ELSE [ d EXCEPT !.compositeSystemSource = track,
                  !.systemConnections = @ + 1 ]

\* switchCompositeToExcalidraw (lines 1113-1128)
switchCompositeToExcalidraw(a) ==
  IF a.activeCompositeSource = "excalidraw" THEN a
  ELSE cleanupCompositeDisplayCapture(setCompositeSource(a, "excalidraw"), TRUE)

\* mutant: the listener leaves the switch to a later turn
DisplayOnEndedDefers(a) == a

\* mutant: the listener only lets go of the capture
DisplayOnEndedCleansOnly(a) == cleanupCompositeDisplayCapture(a, TRUE)

\* onended of the display video track (lines 1209-1216)
DisplayOnEnded(a) ==
  IF ~a.isRecordingRef \/ a.activeRecordingSource # "composite"
  THEN cleanupCompositeDisplayCapture(a, TRUE)
  ELSE switchCompositeToExcalidraw(a)

\* lines 1175-1176: the granted stream id replaces the one held
AttachAdopt(a, id, audio) ==
  LET a1 == cleanupCompositeDisplayCapture(a, TRUE) IN
  [ a1 EXCEPT !.displayCaptureStream = id,
              !.streams[id] = [ track |-> "live", onended |-> FALSE,
                                audio |-> audio ],
              !.nextStream = @ + 1 ]

\* mutant: the audio track is taken whether it is live or not
SystemAudioTrackAnyState(a, id) ==
  IF a.settings.recordSystemAudio /\ a.streams[id].audio THEN id ELSE 0

\* the live audio track of stream id, if system audio is wanted (line 1194)
SystemAudioTrack(a, id) ==
  IF a.settings.recordSystemAudio /\ a.streams[id].audio
       /\ a.streams[id].track = "live"
  THEN id ELSE 0

\* lines 1194-1232, after displayVideo.play() settled
AttachFinish(a, id, ok) ==
  LET t == SystemAudioTrack(a, id)
      a1 == IF t # 0 THEN attachCompositeSystemAudio(a, t, ok)
            ELSE detachCompositeSystemAudio(a)
      a2 == [ a1 EXCEPT !.streams[id].onended = TRUE ] IN
  setCompositeSource(a2, "display")

\* the source switch of the controls is shown while a composite session
\* records (showSourceSwitch, line 1783)
SourceSwitchShown ==
  view.isRecording /\ ~view.isConverting
    /\ app.settings.recordingSource = "composite"

FreeSlot(i) ==
  attach[i].pc = "idle" /\ \A j \in AttachIds : j < i => attach[j].pc # "idle"

\* the 'share screen' control: attachCompositeDisplaySource to its first await
AttachClick(i) ==
  /\ SourceSwitchShown
  /\ FreeSlot(i)
  /\ \E available \in BOOLEAN :
       IF available
       THEN /\ attach' = [ attach EXCEPT ![i] = [ IdleAttach EXCEPT !.pc = "pick" ] ]
            /\ app' = app
       ELSE /\ attach' = [ attach EXCEPT ![i] = Returned("false") ]
            /\ app' = AttachRejected(app)
  /\ UNCHANGED <<view, confirm, desktop, stop, hist>>

\* getDisplayMedia settled (lines 1143-1176)
AttachPicked(i) ==
  /\ attach[i].pc = "pick"
  /\ \E result \in {"denied", "throws", "noVideo", "ok"}, audio \in BOOLEAN :
       IF result = "ok"
       THEN /\ app.nextStream <= hist.streamCap
            /\ audio => app.settings.recordSystemAudio
            /\ app' = AttachAdopt(app, app.nextStream, audio)
            /\ attach' = [ attach EXCEPT ![i] = [ pc |-> "play",
                                                  stream |-> app.nextStream,
                                                  result |-> "none" ] ]
       ELSE /\ ~audio
            /\ attach' = [ attach EXCEPT ![i] = Returned("false") ]
            /\ app' = AttachRejected(app)
  /\ UNCHANGED <<view, confirm, desktop, stop, hist>>

\* displayVideo.play() settled (lines 1188-1232)
AttachPlayed(i) ==
  /\ attach[i].pc = "play"
  /\ \E ok \in BOOLEAN : app' = AttachFinish(app, attach[i].stream, ok)
  /\ attach' = [ attach EXCEPT ![i] = Returned("true") ]
  /\ UNCHANGED <<view, confirm, desktop, stop, hist>>

\* the 'back to whiteboard' control
SwitchToExcalidraw ==
  /\ SourceSwitchShown
  /\ app' = switchCompositeToExcalidraw(app)
  /\ UNCHANGED <<view, confirm, desktop, stop, attach, hist>>

\* the video track of display stream id ends (the operator stops sharing)
DisplayTrackEnded(id) ==
  /\ app.streams[id].track = "live"
  /\ LET a1 == [ app EXCEPT !.streams[id].track = "ended" ] IN
     IF app.streams[id].onended
     THEN app' = DisplayOnEnded(a1)
     ELSE app' = a1
  /\ UNCHANGED <<view, confirm, desktop, stop, attach, hist>>

(* --------------------------- specification ----------------------------- *)
Init ==
  /\ \E ac \in BOOLEAN, src \in {"composite", "desktop"},
        ra \in BOOLEAN, rs \in BOOLEAN :
       app = InitApp(ac, src, ra, rs)
  /\ view = ViewOf(app)
  /\ confirm = IdleConfirm
  /\ desktop = IdleDesktop
  /\ stop = IdleStop
  /\ attach = [ i \in AttachIds |-> IdleAttach ]
  /\ hist = InitHist

Next ==
  \/ StartRecording
  \/ CancelPreview
  \/ ConfirmRecording
  \/ ConfirmAudioReady
  \/ ConfirmStartSettled
  \/ DesktopPicked
  \/ DesktopTrackEnded
  \/ TogglePause
  \/ StopClick
  \/ StopVideoFlushed
  \/ StopAudioFlushed
  \/ StopRecorderContextClosed
  \/ StopMediaRecorderStopped
  \/ StopDesktopClosed
  \/ StopDesktopTail
  \/ StopTail
  \/ MediaRecorderData
  \/ MediaRecorderInactive
  \/ Render
  \/ ChangeSettings
  \/ \E i \in AttachIds : AttachClick(i)
  \/ \E i \in AttachIds : AttachPicked(i)
  \/ \E i \in AttachIds : AttachPlayed(i)
  \/ SwitchToExcalidraw
  \/ \E id \in StreamIds : DisplayTrackEnded(id)

Spec == Init /\ [][Next]_vars

\* the awaits of stopRecording settle: encoder flushes resolve or reject,
\* AudioContext.close() resolves, the MediaRecorder fires 'stop'
StopProgress ==
  \/ StopVideoFlushed
  \/ StopAudioFlushed
  \/ StopRecorderContextClosed
  \/ StopMediaRecorderStopped
  \/ StopDesktopClosed
  \/ StopDesktopTail
  \/ StopTail

FairSpec == Spec /\ WF_vars(StopProgress)

(* ---------- one session after another, without the source switch ------- *)
\* the sessions of Spec and one more
SequelInit ==
  /\ \E ac \in BOOLEAN, src \in {"composite", "desktop"},
        ra \in BOOLEAN, rs \in BOOLEAN :
       app = InitApp(ac, src, ra, rs)
  /\ view = ViewOf(app)
  /\ confirm = IdleConfirm
  /\ desktop = IdleDesktop
  /\ stop = IdleStop
  /\ attach = [ i \in AttachIds |-> IdleAttach ]
  /\ hist = [ InitHist EXCEPT
                !.cap = MaxSessions + 1,
                !.outcomes = [ i \in 1..(MaxSessions + 1) |-> << >> ] ]

SequelNext ==
  \/ StartRecording
  \/ CancelPreview
  \/ ConfirmRecording
  \/ ConfirmAudioReady
  \/ ConfirmStartSettled
  \/ DesktopPicked
  \/ DesktopTrackEnded
  \/ TogglePause
  \/ StopClick
  \/ StopVideoFlushed
  \/ StopAudioFlushed
  \/ StopRecorderContextClosed
  \/ StopMediaRecorderStopped
  \/ StopDesktopClosed
  \/ StopDesktopTail
  \/ StopTail
  \/ MediaRecorderData
  \/ MediaRecorderInactive
  \/ Render
  \/ ChangeSettings

SequelSpec == SequelInit /\ [][SequelNext]_vars

(* ------------------- a composite session with its ticks ---------------- *)
\* frames the recorder counts in one behaviour of TickSpec
MaxTickFrames == 5

\* the timeout of confirmRecording expires (lines 1471-1474); it was set
\* after the state that starts the session, whose commit comes first
StartTimerFires ==
  /\ app.startTimer
  /\ view.isRecording = app.isRecording
  /\ app' = requestAnimationFrame(
              preRenderFrames([ app EXCEPT !.startTimer = FALSE ]))
  /\ UNCHANGED <<view, confirm, desktop, stop, attach, hist>>

\* the browser runs one requested callback: the one whose id is held
\* (held) or an earlier one
AnimationFrame ==
  /\ app.rafQueued > 0
  /\ app.rec.frameCount < MaxTickFrames
  /\ \E held \in BOOLEAN, due \in BOOLEAN :
       /\ held => app.rafRefQueued
       /\ ~held => app.rafQueued > (IF app.rafRefQueued THEN 1 ELSE 0)
       /\ app' = renderCompositeFrame(
                   [ app EXCEPT !.rafQueued = @ - 1,
                                !.rafRefQueued = IF held THEN FALSE ELSE @ ],
                   TRUE, due)
  /\ UNCHANGED <<view, confirm, desktop, stop, attach, hist>>

TickInit ==
  /\ \E ac \in BOOLEAN, ra \in BOOLEAN, rs \in BOOLEAN :
       app = InitApp(ac, "composite", ra, rs)
  /\ view = ViewOf(app)
  /\ confirm = IdleConfirm
  /\ desktop = IdleDesktop
  /\ stop = IdleStop
  /\ attach = [ i \in AttachIds |-> IdleAttach ]
  /\ hist = InitHist

TickNext ==
  \/ StartRecording
  \/ ConfirmRecording
  \/ ConfirmAudioReady
  \/ ConfirmStartSettled
  \/ Render
  \/ TogglePause
  \/ StopClick
  \/ StopVideoFlushed
  \/ StopAudioFlushed
  \/ StopRecorderContextClosed
  \/ StopMediaRecorderStopped
  \/ StopTail
  \/ StartTimerFires
  \/ AnimationFrame

TickSpec == TickInit /\ [][TickNext]_vars

(* ------------- the start of the tick loop, in either order ------------- *)
\* the timeout of confirmRecording expires (lines 1471-1474), before or
\* after the effect of line 178 copied isRecording into isRecordingRef:
\* the timeout and the effect are tasks of different sources
StartTimerFiresAnytime ==
  /\ app.startTimer
  /\ app' = requestAnimationFrame(
              preRenderFrames([ app EXCEPT !.startTimer = FALSE ]))
  /\ UNCHANGED <<view, confirm, desktop, stop, attach, hist>>

StartupNext ==
  \/ StartRecording
  \/ ConfirmRecording
  \/ ConfirmAudioReady
  \/ ConfirmStartSettled
  \/ Render
  \/ TogglePause
  \/ StopClick
  \/ StopVideoFlushed
  \/ StopAudioFlushed
  \/ StopRecorderContextClosed
  \/ StopMediaRecorderStopped
  \/ StopTail
  \/ StartTimerFiresAnytime
  \/ AnimationFrame

StartupSpec == TickInit /\ [][StartupNext]_vars

(* ------------- the fallback recorder of one session -------------------- *)
\* the most dataavailable events of one recorder
MaxChunks == 3

\* hist.received: the non-empty chunks the recorder has fired, in order;
\* hist.late: one of them was fired after the stop request
FallbackInit ==
  /\ \E src \in {"composite", "desktop"}, committed \in BOOLEAN :
       LET h0 == [ session |-> 0, outcomes |-> [ i \in 1..MaxSessions |-> << >> ],
                   cap |-> MaxSessions, streamCap |-> MaxStreams,
                   started |-> {}, lastAlert |-> "none", received |-> << >>,
                   late |-> FALSE ]
       IN
       IF src = "composite"
       THEN \E webCodecs \in BOOLEAN, built \in BOOLEAN,
               mr \in {"undefined", "throws", "ok"} :
              LET a0 == createCompositeAudioPipeline(
                          ConfirmBegin([ InitApp(TRUE, "composite", TRUE, FALSE)
                                           EXCEPT !.isPreviewing = TRUE ]),
                          built, TRUE)
                  audio == CompositeAudioStream(a0, built, TRUE)
                  a1 == IF webCodecs
                        THEN [ a0 EXCEPT !.webCodecsRecorderRef = TRUE,
                                         !.rec = RecorderStarted(NewRecorder, built) ]
                        ELSE a0
                  m == ConfirmFinish(a1, [ IdleConfirm EXCEPT !.audio = audio ],
                                     h0, webCodecs, mr)
              IN /\ ~BothFailed(webCodecs, mr = "ok")
                 /\ committed
                 /\ app = Committed(m.a)
                 /\ hist = m.h
       ELSE \E mic \in {"none", "own"}, sys \in BOOLEAN :
              LET m == DesktopStart([ InitApp(TRUE, "desktop", TRUE, TRUE)
                                        EXCEPT !.displayStreamRef = TRUE,
                                               !.desktopTrack = "live" ],
                                    h0, mic, sys, TRUE, "ok")
              IN /\ app = IF committed THEN Committed(m.a) ELSE m.a
                 /\ hist = m.h
  /\ view = IF app.isRecordingRef THEN ViewOf(app)
            ELSE [ ViewOf(app) EXCEPT !.isRecording = FALSE ]
  /\ confirm = IdleConfirm
  /\ desktop = IdleDesktop
  /\ stop = IdleStop
  /\ attach = [ i \in AttachIds |-> IdleAttach ]

\* the timeslice of recorder.start(1000) elapsed
FallbackData ==
  /\ app.mediaRecorder = "recording"
  /\ app.dataEvents < MaxChunks
  /\ \E nonEmpty \in BOOLEAN :
       /\ app' = OnDataAvailable(app, nonEmpty)
       /\ hist' = [ hist EXCEPT !.received =
                      IF nonEmpty THEN Append(@, app.dataEvents + 1) ELSE @ ]
  /\ UNCHANGED <<view, confirm, desktop, stop, attach>>

\* the Pause / Resume button
FallbackTogglePause ==
  /\ app.isRecordingRef
  /\ view = ViewOf(app)
  /\ app' = togglePause(app, app.isPaused)
  /\ view' = ViewOf(app')
  /\ UNCHANGED <<confirm, desktop, stop, attach, hist>>

\* the Stop button: stopRecording to its first await
FallbackStopClick ==
  /\ view.isRecording /\ ~view.isConverting
  /\ stop.pc = "idle"
  /\ \E throws \in BOOLEAN :
       Apply(stopRecording(app, stop, hist, throws))
  /\ view' = IF app' = app THEN view ELSE ViewOf(app')
  /\ UNCHANGED <<confirm, desktop, attach>>

\* the last data a stopped recorder has, if any
FallbackFinal(a, final, nonEmpty) ==
  IF final /\ a.dataEvents < MaxChunks THEN OnDataAvailable(a, nonEmpty) ELSE a

\* what FallbackFinal adds to the chunks fired
FallbackReceived(h, a, final, nonEmpty) ==
  [ h EXCEPT !.received =
      IF final /\ nonEmpty /\ a.dataEvents < MaxChunks
      THEN Append(@, a.dataEvents + 1) ELSE @ ]

\* the recorder's last 'dataavailable' and its 'stop' event: onStop of
\* stopMediaRecorder (lines 661-665)
FallbackStopped ==
  /\ stop.pc = "mrStop"
  /\ \E final \in BOOLEAN, nonEmpty \in BOOLEAN :
       LET a1 == FallbackFinal(app, final, nonEmpty) IN
       Apply(StopAfterMediaRecorder(
               stopMediaRecorderCleanup(a1), stop,
               [ FallbackReceived(hist, app, final, nonEmpty)
                   EXCEPT !.late = a1.mediaRecorderChunks
                                     # app.mediaRecorderChunks ],
               buildBlob(a1)))
  /\ UNCHANGED <<view, confirm, desktop, attach>>

\* desktop mode: every track of the recorded stream has ended, the
\* recorder fires its last data and stops by itself
FallbackInactive ==
  /\ app.activeRecordingSource = "desktop"
  /\ app.mediaRecorder \in {"recording", "paused"}
  /\ app.desktopTrack = "ended" /\ ~app.fallbackHasAudio
  /\ \E final \in BOOLEAN, nonEmpty \in BOOLEAN :
       /\ app' = [ FallbackFinal(app, final, nonEmpty)
                     EXCEPT !.mediaRecorder = "inactive" ]
       /\ hist' = FallbackReceived(hist, app, final, nonEmpty)
  /\ UNCHANGED <<view, confirm, desktop, stop, attach>>

FallbackNext ==
  \/ FallbackData
  \/ FallbackTogglePause
  \/ FallbackStopClick
  \/ FallbackStopped
  \/ FallbackInactive
  \/ DesktopTrackEnded
  \/ Render
  \/ StopVideoFlushed
  \/ StopAudioFlushed
  \/ StopRecorderContextClosed
  \/ StopDesktopClosed
  \/ StopTail

FallbackSpec == FallbackInit /\ [][FallbackNext]_vars

(* ------------- the recording frame and the camera bubble -------------- *)
\* lengths are whole pixels; a quotient is cut to the pixel below
MathMin(x, y) == IF x < y THEN x ELSE y
MathMax(x, y) == IF x > y THEN x ELSE y

\* the narrowest frame a resize gives (lines 1541-1555)
MinFrameWidth == 200

\* the webcam size slider goes from 100 to 300 (SettingsPanel)
WebcamSizes == {100, 200, 300}

\* getRecordingDimensions: 16:9, 1:1 and 9:16
RecordingDimensions ==
  { [ width |-> 1920, height |-> 1080 ], [ width |-> 1080, height |-> 1080 ],
    [ width |-> 1080, height |-> 1920 ] }

\* the rectangle of .excalidraw-container
Containers ==
  { [ width |-> 1200, height |-> 800 ], [ width |-> 400, height |-> 800 ] }

\* the mouse travels tried in a drag or a resize
Travels == {-600, -200, 200, 600}

\* the most mouse moves of one preview
MaxMoves == 3

\* mutant: the bubble is only kept right of and below the frame's corner
snapBubbleToFrameOneSided(frame, size, currentPos) ==
  [ x |-> MathMax(frame.x, currentPos.x), y |-> MathMax(frame.y, currentPos.y) ]

\* snapBubbleToFrame (lines 1100-1106); handleBubbleDrag clamps the same
\* way (lines 1725-1732)
snapBubbleToFrame(frame, size, currentPos) ==
  [ x |-> MathMax(frame.x,
                  MathMin(currentPos.x, frame.x + frame.width - size)),
    y |-> MathMax(frame.y,
                  MathMin(currentPos.y, frame.y + frame.height - size)) ]

\* calculateRecordingFrame (lines 300-327): the largest frame of the
\* target aspect within 90% of the container, centred
calculateRecordingFrame(c, target) ==
  LET wider == c.width * target.height > c.height * target.width
      fh == IF wider THEN (c.height * 9) \div 10
            ELSE (((c.width * 9) \div 10) * target.height) \div target.width
      fw == IF wider THEN (fh * target.width) \div target.height
            ELSE (c.width * 9) \div 10
  IN [ x |-> (c.width - fw) \div 2, y |-> (c.height - fh) \div 2,
       width |-> fw, height |-> fh ]

\* handleFrameDrag, one mouse move (lines 1486-1503)
handleFrameDrag(f, c, deltaX, deltaY) ==
  [ f EXCEPT !.x = MathMax(0, MathMin(f.x + deltaX, c.width - f.width)),
             !.y = MathMax(0, MathMin(f.y + deltaY, c.height - f.height)) ]

\* handleFrameResize, one mouse move (lines 1525-1586): the corner's new
\* width, the height of the same aspect, then the four container limits
handleFrameResize(f, c, corner, deltaX) ==
  LET byAspect(w) == (w * f.height) \div f.width
      timesAspect(h) == (h * f.width) \div f.height
      w0 == IF corner \in {"se", "ne"}
            THEN MathMax(MinFrameWidth, f.width + deltaX)
            ELSE MathMax(MinFrameWidth, f.width - deltaX)
      h0 == byAspect(w0)
      x0 == IF corner \in {"sw", "nw"} THEN f.x + f.width - w0 ELSE f.x
      y0 == IF corner \in {"ne", "nw"} THEN f.y + f.height - h0 ELSE f.y
      \* if (newX < 0)
      x1 == IF x0 < 0 THEN 0 ELSE x0
      w1 == IF x0 < 0 THEN f.x + f.width ELSE w0
      h1 == IF x0 < 0 THEN byAspect(w1) ELSE h0
      \* if (newY < 0)
      y2 == IF y0 < 0 THEN 0 ELSE y0
      h2 == IF y0 < 0 THEN f.y + f.height ELSE h1
      w2 == IF y0 < 0 THEN timesAspect(h2) ELSE w1
      \* if (newX + newWidth > containerRect.width)
      over3 == x1 + w2 > c.width
      w3 == IF over3 THEN c.width - x1 ELSE w2
      h3 == IF over3 THEN byAspect(w3) ELSE h2
      \* if (newY + newHeight > containerRect.height)
      over4 == y2 + h3 > c.height
      h4 == IF over4 THEN c.height - y2 ELSE h3
      w4 == IF over4 THEN timesAspect(h4) ELSE w3
  IN [ x |-> x1, y |-> y2, width |-> w4, height |-> h4 ]

\* the bubble lies inside the frame
BubbleInside(pos, size, f) ==
  /\ f.x <= pos.x /\ pos.x + size <= f.x + f.width
  /\ f.y <= pos.y /\ pos.y + size <= f.y + f.height

\* hist of this specification: the container, the settings, the recording
\* frame, bubblePosition and the bubblePositionRef that the effect of
\* line 179 copies from it
SnapInit ==
  /\ app = InitApp(TRUE, "composite", TRUE, FALSE)
  /\ view = ViewOf(app)
  /\ confirm = IdleConfirm
  /\ desktop = IdleDesktop
  /\ stop = IdleStop
  /\ attach = [ i \in AttachIds |-> IdleAttach ]
  /\ \E c \in Containers, t \in RecordingDimensions, size \in WebcamSizes :
       hist = [ container |-> c, target |-> t, webcamSize |-> size,
                isPreviewing |-> FALSE,
                recordingFrame |-> [ x |-> 0, y |-> 0, width |-> 0, height |-> 0 ],
                bubblePosition |-> [ x |-> 20, y |-> 100 ],
                bubblePositionRef |-> [ x |-> 20, y |-> 100 ],
                moves |-> 0 ]

\* the frame was set: the bubble is snapped into it
SnapTo(h, f) ==
  [ h EXCEPT !.recordingFrame = f,
             !.bubblePosition = snapBubbleToFrame(f, h.webcamSize,
                                                  h.bubblePositionRef),
             !.moves = @ + 1 ]

\* enterPreviewMode (lines 1348-1358)
SnapEnterPreview ==
  /\ ~hist.isPreviewing /\ hist.moves = 0
  /\ hist' = [ SnapTo(hist, calculateRecordingFrame(hist.container, hist.target))
                 EXCEPT !.isPreviewing = TRUE, !.moves = 0 ]
  /\ UNCHANGED <<app, view, confirm, desktop, stop, attach>>

\* the frame is dragged during preview
SnapFrameDrag ==
  /\ hist.isPreviewing /\ hist.moves < MaxMoves
  /\ \E dx \in Travels, dy \in Travels :
       hist' = SnapTo(hist, handleFrameDrag(hist.recordingFrame,
                                            hist.container, dx, dy))
  /\ UNCHANGED <<app, view, confirm, desktop, stop, attach>>

\* a corner of the frame is dragged during preview
SnapFrameResize ==
  /\ hist.isPreviewing /\ hist.moves < MaxMoves
  /\ \E corner \in {"se", "sw", "ne", "nw"}, dx \in Travels :
       hist' = SnapTo(hist, handleFrameResize(hist.recordingFrame,
                                              hist.container, corner, dx))
  /\ UNCHANGED <<app, view, confirm, desktop, stop, attach>>

\* the effect of line 179 after a render
SnapRender ==
  /\ hist.bubblePositionRef # hist.bubblePosition
  /\ hist' = [ hist EXCEPT !.bubblePositionRef = hist.bubblePosition ]
  /\ UNCHANGED <<app, view, confirm, desktop, stop, attach>>

SnapNext ==
  \/ SnapEnterPreview
  \/ SnapFrameDrag
  \/ SnapFrameResize
  \/ SnapRender

SnapSpec == SnapInit /\ [][SnapNext]_vars

(* ------------- source switching in one recording session -------------- *)
\* a composite session that records, in which the operator can share one
\* screen after another
SwitchInit ==
  /\ \E webCodecs \in BOOLEAN, recSys \in BOOLEAN, built \in BOOLEAN :
       LET a0 == createCompositeAudioPipeline(
                   ConfirmBegin([ InitApp(TRUE, "composite", TRUE, recSys)
                                    EXCEPT !.isPreviewing = TRUE ]),
                   built, TRUE)
           audio == CompositeAudioStream(a0, built, TRUE)
           a1 == IF webCodecs
                 THEN [ a0 EXCEPT !.webCodecsRecorderRef = TRUE,
                                  !.rec = RecorderStarted(NewRecorder, TRUE) ]
                 ELSE a0
           m == ConfirmFinish(a1, [ IdleConfirm EXCEPT !.audio = audio ],
                              InitHist, webCodecs, "ok")
       IN /\ app = Committed(m.a)
          /\ hist = [ m.h EXCEPT !.streamCap = MaxStreams + 1 ]
  /\ view = ViewOf(app)
  /\ confirm = IdleConfirm
  /\ desktop = IdleDesktop
  /\ stop = IdleStop
  /\ attach = [ i \in AttachIds |-> IdleAttach ]

SwitchNext ==
  \/ \E i \in AttachIds : AttachClick(i)
  \/ \E i \in AttachIds : AttachPicked(i)
  \/ \E i \in AttachIds : AttachPlayed(i)
  \/ SwitchToExcalidraw
  \/ \E id \in StreamIds : DisplayTrackEnded(id)
  \/ TogglePause
  \/ Render
  \/ StopClick
  \/ StopVideoFlushed
  \/ StopAudioFlushed
  \/ StopRecorderContextClosed
  \/ StopMediaRecorderStopped
  \/ StopTail

SwitchSpec == SwitchInit /\ [][SwitchNext]_vars

(* ------------- two screen shares under way at once --------------------- *)
\* the calls of attachCompositeDisplaySource that can be suspended at once
OverlapIds == 1..(MaxAttach + 1)

\* a composite session that records with system audio wanted
OverlapInit ==
  /\ \E webCodecs \in BOOLEAN, built \in BOOLEAN :
       LET a0 == createCompositeAudioPipeline(
                   ConfirmBegin([ InitApp(TRUE, "composite", TRUE, TRUE)
                                    EXCEPT !.isPreviewing = TRUE ]),
                   built, TRUE)
           audio == CompositeAudioStream(a0, built, TRUE)
           a1 == IF webCodecs
                 THEN [ a0 EXCEPT !.webCodecsRecorderRef = TRUE,
                                  !.rec = RecorderStarted(NewRecorder, TRUE) ]
                 ELSE a0
           m == ConfirmFinish(a1, [ IdleConfirm EXCEPT !.audio = audio ],
                              InitHist, webCodecs, "ok")
       IN /\ app = Committed(m.a)
          /\ hist = [ m.h EXCEPT !.streamCap = MaxStreams + 1 ]
  /\ view = ViewOf(app)
  /\ confirm = IdleConfirm
  /\ desktop = IdleDesktop
  /\ stop = IdleStop
  /\ attach = [ i \in OverlapIds |-> IdleAttach ]

OverlapNext ==
  \/ \E i \in OverlapIds : AttachClick(i)
  \/ \E i \in OverlapIds : AttachPicked(i)
  \/ \E i \in OverlapIds : AttachPlayed(i)
  \/ SwitchToExcalidraw
  \/ \E id \in StreamIds : DisplayTrackEnded(id)
  \/ TogglePause
  \/ Render
  \/ StopClick
  \/ StopVideoFlushed
  \/ StopAudioFlushed
  \/ StopRecorderContextClosed
  \/ StopMediaRecorderStopped
  \/ StopTail

OverlapSpec == OverlapInit /\ [][OverlapNext]_vars

(* ------------- a recording session and the one after it --------------- *)
\* a composite session that records; the operator can share a screen,
\* pause, stop and start one more session
RestartInit ==
  /\ \E webCodecs \in BOOLEAN, recSys \in BOOLEAN, built \in BOOLEAN :
       LET a0 == createCompositeAudioPipeline(
                   ConfirmBegin([ InitApp(TRUE, "composite", TRUE, recSys)
                                    EXCEPT !.isPreviewing = TRUE ]),
                   built, TRUE)
           audio == CompositeAudioStream(a0, built, TRUE)
           a1 == IF webCodecs
                 THEN [ a0 EXCEPT !.webCodecsRecorderRef = TRUE,
                                  !.rec = RecorderStarted(NewRecorder, TRUE) ]
                 ELSE a0
           h0 == [ InitHist EXCEPT
                     !.cap = MaxSessions + 1,
                     !.outcomes = [ i \in 1..(MaxSessions + 1) |-> << >> ] ]
           m == ConfirmFinish(a1, [ IdleConfirm EXCEPT !.audio = audio ],
                              h0, webCodecs, "ok")
       IN /\ app = Committed(m.a)
          /\ hist = m.h
  /\ view = ViewOf(app)
  /\ confirm = IdleConfirm
  /\ desktop = IdleDesktop
  /\ stop = IdleStop
  /\ attach = [ i \in AttachIds |-> IdleAttach ]

RestartNext ==
  \/ \E i \in AttachIds : AttachClick(i)
  \/ \E i \in AttachIds : AttachPicked(i)
  \/ \E i \in AttachIds : AttachPlayed(i)
  \/ SwitchToExcalidraw
  \/ \E id \in StreamIds : DisplayTrackEnded(id)
  \/ TogglePause
  \/ Render
  \/ StopClick
  \/ StopVideoFlushed
  \/ StopAudioFlushed
  \/ StopRecorderContextClosed
  \/ StopMediaRecorderStopped
  \/ StopTail
  \/ StartRecording
  \/ CancelPreview
  \/ ConfirmRecording
  \/ ConfirmAudioReady
  \/ ConfirmStartSettled

RestartSpec == RestartInit /\ [][RestartNext]_vars

(* ------------- the compositor of one session, with a clock ------------ *)
\* the timeout of confirmRecording, in ms (line 1474)
StartDelay == 100

\* the clock of one behaviour of LoopSpec stops here (ms)
MaxClock == 202

\* frames the recorder counts in one behaviour of LoopSpec
MaxLoopFrames == 6

\* ms between two callbacks: the same animation frame, the next one of a
\* 60 Hz display, the one after it
FrameSteps == {0, 17, 34}

NoTick ==
  [ exit |-> "none", recording |-> FALSE, viaRaf |-> FALSE,
    rescheduled |-> FALSE, submitted |-> FALSE, since |-> -1,
    sinceRaf |-> -1, drew |-> {}, overlay |-> FALSE,
    active |-> "excalidraw", videoReady |-> FALSE ]

\* what was seen of the compositor.  now: the clock (ms); tick: the last
\* call of renderCompositeFrame (submitted: it composited and handed the
\* frame to the recorder; since: ms since the call before it that did so,
\* -1 for none; sinceRaf: the same, counting only the calls made by
\* requestAnimationFrame); exits: the exits taken while recording, each
\* with whether the call asked for a next callback; lastSubmit,
\* lastRafSubmit: the clock at the last such call (0: none)
LoopInitHist ==
  [ now |-> StartDelay, tick |-> NoTick, exits |-> {},
    lastSubmit |-> 0, lastRafSubmit |-> 0 ]

\* one call of renderCompositeFrame and what it showed; s is the pair of
\* the application and the history
LoopCall(s, canvasOk, viaRaf, sceneReady, editing) ==
  LET a == s.a
      h == s.h
      exit == TickExit(a, canvasOk, viaRaf, h.now)
      a1 == renderCompositeFrameAt(a, canvasOk, viaRaf, h.now)
      composited == exit = "composited"
      submitted == composited /\ HandsFrame(a, viaRaf, Due(a, h.now))
      t == [ exit |-> exit, recording |-> a.isRecordingRef,
             viaRaf |-> viaRaf,
             rescheduled |-> a1.rafQueued = a.rafQueued + 1,
             submitted |-> submitted,
             since |-> IF h.lastSubmit = 0 THEN -1
                       ELSE h.now - h.lastSubmit,
             sinceRaf |-> IF h.lastRafSubmit = 0 THEN -1
                          ELSE h.now - h.lastRafSubmit,
             drew |-> IF composited
                      THEN DrawnSources(a, a.displayVideoReady, sceneReady)
                      ELSE {},
             overlay |-> composited
                          /\ DrawsTextOverlay(a, a.displayVideoReady,
                                              sceneReady, editing),
             active |-> a.activeCompositeSource,
             videoReady |-> a.displayVideoReady ]
  IN [ a |-> a1,
       h |-> [ h EXCEPT
                 !.tick = t,
                 !.exits = IF a.isRecordingRef
                           THEN @ \cup { <<exit, t.rescheduled>> } ELSE @,
                 !.lastSubmit = IF submitted THEN h.now ELSE @,
                 !.lastRafSubmit = IF submitted /\ viaRaf THEN h.now ELSE @ ] ]

\* the timeout of confirmRecording expires (lines 1465-1474)
LoopTimerFires ==
  /\ app.startTimer
  /\ \E canvasOk \in BOOLEAN, sceneReady \in BOOLEAN, editing \in BOOLEAN :
       LET s0 == [ a |-> [ app EXCEPT !.startTimer = FALSE ], h |-> hist ]
           s1 == LoopCall(s0, canvasOk, FALSE, sceneReady, editing)
           s2 == LoopCall(s1, canvasOk, FALSE, sceneReady, editing)
           s3 == LoopCall(s2, canvasOk, FALSE, sceneReady, editing)
       IN /\ app' = requestAnimationFrame(s3.a)
          /\ hist' = s3.h
  /\ view' = ViewOf(app')
  /\ UNCHANGED <<confirm, desktop, stop, attach>>

\* the browser runs one requested callback, dt ms after the last one
LoopAnimationFrame ==
  /\ app.rafQueued > 0
  /\ app.rec.frameCount < MaxLoopFrames
  /\ \E held \in BOOLEAN, dt \in FrameSteps, canvasOk \in BOOLEAN,
        sceneReady \in BOOLEAN, editing \in BOOLEAN :
       /\ held => app.rafRefQueued
       /\ ~held => app.rafQueued > (IF app.rafRefQueued THEN 1 ELSE 0)
       /\ hist.now + dt <= MaxClock
       /\ LET s0 == [ a |-> [ app EXCEPT
                                !.rafQueued = @ - 1,
                                !.rafRefQueued = IF held THEN FALSE ELSE @ ],
                      h |-> [ hist EXCEPT !.now = @ + dt ] ]
              s1 == LoopCall(s0, canvasOk, TRUE, sceneReady, editing)
          IN /\ app' = s1.a
             /\ hist' = s1.h
  /\ view' = ViewOf(app')
  /\ UNCHANGED <<confirm, desktop, stop, attach>>

\* the Pause / Resume button
LoopTogglePause ==
  /\ app.isRecordingRef
  /\ app' = togglePause(app, app.isPaused)
  /\ view' = ViewOf(app')
  /\ UNCHANGED <<confirm, desktop, stop, attach, hist>>

\* the Stop button, up to the first await of stopRecording
LoopStop ==
  /\ app.isRecordingRef
  /\ app' = StopBegin(app)
  /\ view' = ViewOf(app')
  /\ UNCHANGED <<confirm, desktop, stop, attach, hist>>

\* attachCompositeDisplaySource succeeds (lines 1175-1232); played: play()
\* of the display video resolved, so the element has data to draw
LoopAttach ==
  /\ app.isRecordingRef
  /\ app.nextStream <= MaxStreams
  /\ \E played \in BOOLEAN :
       app' = [ AttachFinish(AttachAdopt(app, app.nextStream, FALSE),
                             app.nextStream, FALSE)
                EXCEPT !.displayVideoReady = played ]
  /\ view' = ViewOf(app')
  /\ UNCHANGED <<confirm, desktop, stop, attach, hist>>

\* the display video element gets its first frame
LoopVideoReady ==
  /\ app.displayCaptureStream # 0
  /\ app.streams[app.displayCaptureStream].track = "live"
  /\ ~app.displayVideoReady
  /\ app' = [ app EXCEPT !.displayVideoReady = TRUE ]
  /\ UNCHANGED <<view, confirm, desktop, stop, attach, hist>>

LoopInit ==
  /\ \E webCodecs \in BOOLEAN :
       LET a0 == ConfirmBegin([ InitApp(TRUE, "composite", TRUE, FALSE)
                                  EXCEPT !.isPreviewing = TRUE ])
           a1 == IF webCodecs
                 THEN [ a0 EXCEPT !.webCodecsRecorderRef = TRUE,
                                  !.rec = RecorderStarted(NewRecorder, FALSE) ]
                 ELSE a0
       IN app = Committed(ConfirmFinish(a1, IdleConfirm, InitHist,
                                        webCodecs, "ok").a)
  /\ view = ViewOf(app)
  /\ confirm = IdleConfirm
  /\ desktop = IdleDesktop
  /\ stop = IdleStop
  /\ attach = [ i \in AttachIds |-> IdleAttach ]
  /\ hist = LoopInitHist

LoopNext ==
  \/ LoopTimerFires
  \/ LoopAnimationFrame
  \/ LoopTogglePause
  \/ LoopStop
  \/ LoopAttach
  \/ LoopVideoReady
  \/ SwitchToExcalidraw
  \/ \E id \in StreamIds : DisplayTrackEnded(id)

LoopSpec == LoopInit /\ [][LoopNext]_vars

(* ------------------ WebCodecsRecorder.start(), by step ----------------- *)
ProbeOutcomes == {"supported", "unsupported", "throws"}

\* history of StartSpec.  env: what the browser and the caller provide
\* (probe: per candidate, all "absent" when VideoEncoder.isConfigSupported
\* is no function); pc: where start() is ("new", "audio", "flush",
\* "setup", "done"); codec: what selectVideoCodec returned; failedAt: the
\* step that threw; result: how start() settled
StartInitHist(env) ==
  [ env |-> env, pc |-> "new", codec |-> "none", failedAt |-> "none",
    result |-> "none" ]

\* start() rejects at step
StartFails(h, step) ==
  [ h EXCEPT !.pc = "done", !.failedAt = step, !.result = "error" ]

\* lines 105-111: start() resolves
StartDone(h) == [ h EXCEPT !.pc = "done", !.result = "ok" ]

\* lines 105-108: the last assignments of start()
StartFinish(r) ==
  [ r EXCEPT !.frameCount = 0, !.isRecording = TRUE, !.isPaused = FALSE,
             !.audioTimestamp = 0 ]

\* line 59: selectVideoCodec settles
StartSelect ==
  /\ hist.pc = "new"
  /\ LET codec == selectVideoCodec(hist.env.supportsFn, hist.env.probe) IN
     hist' = IF codec = "Error"
             THEN [ StartFails(hist, "select") EXCEPT !.codec = codec ]
             ELSE [ hist EXCEPT !.pc = "audio", !.codec = codec ]
  /\ UNCHANGED <<app, view, confirm, desktop, stop, attach>>

\* lines 60-95: shouldEnableAudio settles, then the muxer and the video
\* encoder are made and configured (ok: none of that throws)
StartAudio ==
  /\ hist.pc = "audio"
  /\ \E ok \in BOOLEAN :
       LET audio == shouldEnableAudio(hist.env.audioStream,
                                      hist.env.audioEncoderDefined,
                                      hist.env.audioProbe)
       IN /\ app' = [ app EXCEPT
                        !.rec.hasAudio = audio,
                        !.rec.muxer = "open",
                        !.rec.videoEncoder = IF ok THEN "open" ELSE @ ]
          /\ hist' = IF ok THEN [ hist EXCEPT !.pc = "flush" ]
                     ELSE StartFails(hist, "configure")
  /\ UNCHANGED <<view, confirm, desktop, stop, attach>>

\* lines 98-103: videoEncoder.flush() settles
StartFlushed ==
  /\ hist.pc = "flush"
  /\ \E ok \in BOOLEAN :
       IF ~ok
       THEN /\ hist' = StartFails(hist, "flush")
            /\ app' = app
       ELSE IF app.rec.hasAudio
       THEN /\ hist' = [ hist EXCEPT !.pc = "setup" ]
            /\ app' = app
       ELSE /\ hist' = StartDone(hist)
            /\ app' = [ app EXCEPT !.rec = StartFinish(@) ]
  /\ UNCHANGED <<view, confirm, desktop, stop, attach>>

\* setupAudioEncoder (lines 175-249) and the end of start().  live: the
\* track is still live; ok: the encoder and the audio graph can be made
StartAudioSetup ==
  /\ hist.pc = "setup"
  /\ \E live \in BOOLEAN, ok \in BOOLEAN :
       IF ~live
       THEN /\ hist' = StartDone(hist)
            /\ app' = [ app EXCEPT !.rec = StartFinish(@) ]
       ELSE IF ~ok
       THEN /\ hist' = StartFails(hist, "setup")
            /\ app' = [ app EXCEPT !.rec.audioEncoder = "open" ]
       ELSE /\ hist' = StartDone(hist)
            /\ app' = [ app EXCEPT
                          !.rec = [ StartFinish(@) EXCEPT
                                      !.audioEncoder = "open",
                                      !.audioContext = "open",
                                      !.mediaStreamSource = "open",
                                      !.scriptProcessorNode = "open" ] ]
  /\ UNCHANGED <<view, confirm, desktop, stop, attach>>

StartInit ==
  /\ app = InitApp(TRUE, "composite", TRUE, FALSE)
  /\ view = ViewOf(app)
  /\ confirm = IdleConfirm
  /\ desktop = IdleDesktop
  /\ stop = IdleStop
  /\ attach = [ i \in AttachIds |-> IdleAttach ]
  /\ \E supportsFn \in BOOLEAN,
        probe \in [ 1..Len(candidates) -> ProbeOutcomes \cup {"absent"} ],
        audioStream \in {"none", "ended", "live"},
        audioEncoderDefined \in BOOLEAN,
        audioProbe \in ProbeOutcomes \cup {"absent"} :
       /\ \A i \in 1..Len(candidates) : probe[i] = "absent" <=> ~supportsFn
       /\ hist = StartInitHist([ supportsFn |-> supportsFn, probe |-> probe,
                                 audioStream |-> audioStream,
                                 audioEncoderDefined |-> audioEncoderDefined,
                                 audioProbe |-> audioProbe ])

StartNext == StartSelect \/ StartAudio \/ StartFlushed \/ StartAudioSetup

StartSpec == StartInit /\ [][StartNext]_vars

(* --------------- the composite audio helpers, called freely ------------ *)
\* calls made to the helpers in one behaviour of AudioSpec
MaxCalls == 4

\* history of AudioSpec: the number of calls, the last two helpers called
\* and what the last one returned
AudioHist(h, op, returned) ==
  [ calls |-> h.calls + 1, prev |-> h.last, prevReturned |-> h.returned,
    last |-> op, returned |-> returned ]

\* createCompositeAudioPipeline(settings.recordAudio, settings.recordSystemAudio)
AudioCreate ==
  /\ hist.calls < MaxCalls
  /\ \E ctxOk \in BOOLEAN, micLive \in BOOLEAN :
       /\ app' = IF WantsPipeline(app)
                 THEN createCompositeAudioPipeline(app, ctxOk, micLive)
                 ELSE app
       /\ hist' = AudioHist(hist, "create", WantsPipeline(app) /\ ctxOk)
  /\ UNCHANGED <<view, confirm, desktop, stop, attach>>

\* attachCompositeSystemAudio(track)
AudioAttach ==
  /\ hist.calls < MaxCalls
  /\ \E track \in {0} \cup StreamIds, ok \in BOOLEAN :
       /\ app' = attachCompositeSystemAudio(app, track, ok)
       /\ hist' = AudioHist(hist, "attach", app'.compositeSystemSource # 0)
  /\ UNCHANGED <<view, confirm, desktop, stop, attach>>

AudioDetach ==
  /\ hist.calls < MaxCalls
  /\ app' = detachCompositeSystemAudio(app)
  /\ hist' = AudioHist(hist, "detach", FALSE)
  /\ UNCHANGED <<view, confirm, desktop, stop, attach>>

AudioCleanupDisplay ==
  /\ hist.calls < MaxCalls
  /\ \E stopTracks \in BOOLEAN :
       app' = cleanupCompositeDisplayCapture(app, stopTracks)
  /\ hist' = AudioHist(hist, "cleanupDisplay", FALSE)
  /\ UNCHANGED <<view, confirm, desktop, stop, attach>>

AudioCleanupPipeline ==
  /\ hist.calls < MaxCalls
  /\ app' = cleanupCompositeAudioPipeline(app)
  /\ hist' = AudioHist(hist, "cleanupPipeline", FALSE)
  /\ UNCHANGED <<view, confirm, desktop, stop, attach>>

AudioInit ==
  /\ \E ac \in BOOLEAN, ra \in BOOLEAN, rs \in BOOLEAN :
       app = InitApp(ac, "composite", ra, rs)
  /\ view = ViewOf(app)
  /\ confirm = IdleConfirm
  /\ desktop = IdleDesktop
  /\ stop = IdleStop
  /\ attach = [ i \in AttachIds |-> IdleAttach ]
  /\ hist = [ calls |-> 0, prev |-> "none", prevReturned |-> FALSE,
              last |-> "none", returned |-> FALSE ]

AudioNext ==
  \/ AudioCreate
  \/ AudioAttach
  \/ AudioDetach
  \/ AudioCleanupDisplay
  \/ AudioCleanupPipeline

AudioSpec == AudioInit /\ [][AudioNext]_vars

(* ------------------- the WebCodecsRecorder, driven alone --------------- *)
\* addFrame calls in one behaviour of RecSpec
MaxAddFrame == 30
\* audio buffers delivered in one behaviour of RecSpec
MaxAudioBuffers == 2
\* frame rates the recorder is constructed with (line 52)
FrameRates == {1, 2, 30}

\* history of RecSpec.  phase: "new", "started", "stopped";
\* calls / activeCalls: addFrame calls, and those made while recording and
\* not paused; buffers / activeBuffers: the same for onaudioprocess;
\* frames: what was handed to videoEncoder.encode, in order;
\* result: how stop() settled ("blob" or "error"); last: the last call
RecInitHist ==
  [ phase |-> "new", calls |-> 0, activeCalls |-> 0,
    buffers |-> 0, activeBuffers |-> 0, frames |-> << >>,
    result |-> "none", last |-> "none" ]

\* start() (lines 58-112): it resolves, or selectVideoCodec rejects
RecStart ==
  /\ hist.phase = "new"
  /\ \E ok \in BOOLEAN, audio \in BOOLEAN :
       IF ok
       THEN /\ app' = [ app EXCEPT !.rec = RecorderStarted(@, audio) ]
            /\ hist' = [ hist EXCEPT !.phase = "started", !.last = "start" ]
       ELSE /\ app' = app
            /\ hist' = [ hist EXCEPT !.last = "start" ]
  /\ UNCHANGED <<view, confirm, desktop, stop, attach>>

\* one call of addFrame
RecAddFrame ==
  /\ hist.calls < MaxAddFrame
  /\ app' = [ app EXCEPT !.rec = addFrame(@) ]
  /\ LET r == app.rec IN
     hist' = [ hist EXCEPT
       !.calls = @ + 1,
       !.activeCalls = IF r.isRecording /\ ~r.isPaused THEN @ + 1 ELSE @,
       !.frames = IF SubmitsFrame(r)
                  THEN Append(@, [ timestamp |-> FrameTimestamp(r),
                                   keyFrame |-> KeyFrame(r),
                                   index |-> AdjustedFrame(r) ])
                  ELSE @,
       !.last = "addFrame" ]
  /\ UNCHANGED <<view, confirm, desktop, stop, attach>>

\* one audio buffer delivered to onaudioprocess (the node exists)
RecAudioProcess ==
  /\ hist.buffers < MaxAudioBuffers
  /\ app.rec.scriptProcessorNode = "open"
  /\ app' = [ app EXCEPT !.rec = onaudioprocess(@) ]
  /\ LET r == app.rec IN
     hist' = [ hist EXCEPT
       !.buffers = @ + 1,
       !.activeBuffers = IF r.isRecording /\ ~r.isPaused THEN @ + 1 ELSE @,
       !.last = "onaudioprocess" ]
  /\ UNCHANGED <<view, confirm, desktop, stop, attach>>

RecPause ==
  /\ app' = [ app EXCEPT !.rec = pause(@) ]
  /\ hist' = [ hist EXCEPT !.last = "pause" ]
  /\ UNCHANGED <<view, confirm, desktop, stop, attach>>

RecResume ==
  /\ app' = [ app EXCEPT !.rec = resume(@) ]
  /\ hist' = [ hist EXCEPT !.last = "resume" ]
  /\ UNCHANGED <<view, confirm, desktop, stop, attach>>

\* stop() as one call (lines 292-340).  flushOk: the encoder flushes
\* resolve; fin: muxer.finalize() returns
WebCodecsStop(r, flushOk, fin) ==
  IF ~r.isRecording THEN [ r |-> r, result |-> "error" ]
  ELSE LET r1 == RecStopBegin(r) IN
    IF ~flushOk THEN [ r |-> r1, result |-> "error" ]
    ELSE LET r2 == RecVideoFlushed(r1)
             r3 == IF r2.audioEncoder # "null" THEN RecAudioFlushed(r2) ELSE r2
         IN [ r |-> RecFinish(RecDisconnect(r3), fin),
              result |-> IF fin THEN "blob" ELSE "error" ]

RecStop ==
  /\ \E flushOk \in BOOLEAN, fin \in BOOLEAN :
       LET m == WebCodecsStop(app.rec, flushOk, fin) IN
       /\ app' = [ app EXCEPT !.rec = m.r ]
       /\ hist' = [ hist EXCEPT
                      !.phase = IF @ = "started" THEN "stopped" ELSE @,
                      !.result = m.result, !.last = "stop" ]
  /\ UNCHANGED <<view, confirm, desktop, stop, attach>>

RecInit ==
  /\ \E fr \in FrameRates :
       app = [ InitApp(TRUE, "composite", TRUE, FALSE)
                 EXCEPT !.rec.frameRate = fr ]
  /\ view = ViewOf(app)
  /\ confirm = IdleConfirm
  /\ desktop = IdleDesktop
  /\ stop = IdleStop
  /\ attach = [ i \in AttachIds |-> IdleAttach ]
  /\ hist = RecInitHist

RecNext ==
  \/ RecStart
  \/ RecAddFrame
  \/ RecAudioProcess
  \/ RecPause
  \/ RecResume
  \/ RecStop

RecSpec == RecInit /\ [][RecNext]_vars

(* ----------------------- the target video bitrate ---------------------- *)
\* Math.round of the quotient n / d of non-negative integers: the nearest
\* integer, a half going up
MathRound(n, d) == (2 * n + d) \div (2 * d)

\* mutant: the bitrate without its two limits
targetVideoBitrateUnclamped(width, height) ==
  MathRound(width * height * 30, 5)

\* lines 1378 and 1314
targetVideoBitrate(width, height) ==
  MathMin(24000000, MathMax(10000000, MathRound(width * height * 30, 5)))

\* widths and heights tried: a composite frame is as large as the settings
\* say (lines 330-336), a display track as large as the screen shared
FrameWidths == {1, 2, 640, 1000, 1280, 1291, 1920, 2000, 3840, 7680}
FrameHeights == {1, 2, 360, 720, 1080, 1291, 1667, 2000, 2160, 4320}

\* confirmRecording computes the bitrate for the frame of the settings
BitrateComposite ==
  /\ hist.mode = "none"
  /\ hist' = [ hist EXCEPT !.mode = "composite",
                !.bitrate = targetVideoBitrate(hist.width, hist.height) ]
  /\ UNCHANGED <<app, view, confirm, desktop, stop, attach>>

\* startDesktopCaptureRecording computes it from the track's settings
\* (lines 1311-1314), a missing width or height being 1920 or 1080
BitrateDesktop ==
  /\ hist.mode = "none"
  /\ \E hasWidth \in BOOLEAN, hasHeight \in BOOLEAN :
       LET width == IF hasWidth THEN hist.width ELSE 1920
           height == IF hasHeight THEN hist.height ELSE 1080 IN
       hist' = [ mode |-> "desktop", width |-> width, height |-> height,
                 bitrate |-> targetVideoBitrate(width, height) ]
  /\ UNCHANGED <<app, view, confirm, desktop, stop, attach>>

BitrateInit ==
  /\ app = InitApp(TRUE, "composite", TRUE, FALSE)
  /\ view = ViewOf(app)
  /\ confirm = IdleConfirm
  /\ desktop = IdleDesktop
  /\ stop = IdleStop
  /\ attach = [ i \in AttachIds |-> IdleAttach ]
  /\ \E width \in FrameWidths, height \in FrameHeights :
       hist = [ mode |-> "none", width |-> width, height |-> height,
                bitrate |-> 0 ]

BitrateNext == BitrateComposite \/ BitrateDesktop

BitrateSpec == BitrateInit /\ [][BitrateNext]_vars

(* ------------------------------- claims -------------------------------- *)
\* every hand-over stopRecording made so far
AllDeliveries ==
  UNION { { hist.outcomes[n][i] : i \in 1..Len(hist.outcomes[n]) } :
          n \in 1..MaxSessions }

CompositeDeliveries == { d \in AllDeliveries : d.source = "composite" }

\* the policy of the output reconciliation as the specification words it
PolicyOutput(P, F, A) ==
  IF P /\ ~(A /\ F) THEN "mp4" ELSE IF F THEN "webm" ELSE "failed"

\* C1: in composite mode what stopRecording delivers is decided by P (the
\* primary stop returned a blob), F (the fallback stop returned a blob) and
\* A (audio is wanted and the primary recorder had none) alone: the MP4 iff
\* P and not (A and F), else the WebM iff F, else the failure notice;
\* whatever else happened in the session does not change the choice.
C1_OutputIsPolicy ==
  \A d \in CompositeDeliveries : d.out = PolicyOutput(d.P, d.F, d.A)

\* C1 witness: a composite session delivered the WebM although the primary
\* stop had returned a blob
C1_Witness ==
  \E d \in CompositeDeliveries : d.out = "webm" /\ d.P /\ d.F /\ d.A

\* C2: the WebM is kept over an available MP4 only when audio was wanted,
\* the primary gave none and the fallback recording does carry audio; a
\* fallback without an audio track never displaces the MP4.
C2_FallbackOnlyWithAudio ==
  \A d \in CompositeDeliveries :
     (d.out = "webm" /\ d.P) => (d.A /\ d.fallbackAudio)

\* the session that started last has not been stopped yet
Unstopped ==
  hist.session >= 1 /\ hist.outcomes[hist.session] = << >> /\ stop.pc = "idle"

\* composite hand-overs of sessions whose primary path never started
FallbackOnlyDeliveries ==
  { d \in CompositeDeliveries : d.started = {"mediarecorder"} }

SomePathStarted(a) ==
  (a.webCodecsRecorderRef /\ a.rec.muxer = "open") \/ a.mediaRecorder # "null"

\* C4: whenever the session is Recording or Paused, at least one encoder
\* path was started for it; and after both starts failed the session is
\* not recording and not previewing, the error having been shown.
C4_RecordingHasEncoderPath ==
  /\ app.isRecording =>
       /\ hist.started # {}
       /\ SomePathStarted(app)
       /\ "webcodecs" \in hist.started => app.rec.isRecording
  /\ view.isRecording => hist.started # {}
  /\ hist.lastAlert = "StartFailed" =>
       /\ ~app.isRecording /\ ~app.isPreviewing
       /\ ~view.isRecording /\ ~view.isPreviewing
       /\ confirm.pc = "idle" /\ desktop.pc = "idle"

\* C4 witness: confirmRecording aborted, no encoder path having started
C4_Witness ==
  /\ hist.lastAlert = "StartFailed"
  /\ app.settings.recordingSource = "composite"
  /\ hist.session = 0 /\ app.mediaRecorder = "null" /\ ~app.webCodecsRecorderRef

\* the session numbered n is over: a later one has started, or its
\* stopRecording has run to its end
SessionOver(n) ==
  \/ n < hist.session
  \/ n = hist.session /\ ~app.isRecording /\ stop.pc = "idle"

\* C5: a session that reached Recording gets exactly one outcome (MP4,
\* WebM or the failure notice): never a second one, and one at the latest
\* when its stopRecording has run to its end, whichever way the stop
\* triggers interleave.
C5_ExactlyOneOutcome ==
  \A n \in 1..MaxSessions :
     /\ Len(hist.outcomes[n]) <= 1
     /\ n > hist.session => hist.outcomes[n] = << >>
     /\ SessionOver(n) => Len(hist.outcomes[n]) = 1

\* C5 witness: the stopRecording that the desktop track's 'ended' started
\* is suspended, the Stop button is still on screen and has nothing left
\* to deliver a second time
C5_Witness ==
  /\ stop.pc \in {"mrStop", "dClose", "dTail"} /\ stop.source = "desktop"
  /\ app.desktopTrack = "ended"
  /\ view.isRecording /\ ~view.isConverting
  /\ ENABLED StopClick

\* the session is Idle as far as the three flags go
FlagsIdle(a) == ~a.isRecording /\ ~a.isPaused /\ ~a.isConverting

\* this step is the last one of a stopRecording that got past its guard:
\* the call returns, after its last await or without having awaited at all
StopCompletes ==
  /\ stop'.pc = "idle"
  /\ stop.pc # "idle" \/ hist'.outcomes # hist.outcomes

\* C6: a stopRecording that has begun (it is past its guard) runs to its
\* end, whatever its awaits yield, and as it returns the session is Idle:
\* isRecording, isPaused and isConverting are all false.
C6_StopReturnsToIdle ==
  /\ (stop.pc # "idle") ~> (stop.pc = "idle" /\ FlagsIdle(app))
  /\ [][StopCompletes => FlagsIdle(app')]_vars

\* the capture mode of the stopRecording call that takes this step
StoppingSource ==
  IF stop.pc # "idle" THEN stop.source ELSE app.activeRecordingSource

\* everything stopRecording is to let go of in composite mode
CompositeReleased(a) ==
  /\ ~a.webCodecsRecorderRef
  /\ a.mediaRecorder = "null" /\ ~a.mediaRecorderStreamRef
  /\ a.fallbackTracks # "live"
  /\ a.displayCaptureStream = 0
  /\ \A id \in StreamIds : a.streams[id].track # "live"
  /\ ~a.compositeAudioContext /\ ~a.compositeAudioDestination
  /\ ~a.compositeMicSource /\ a.compositeSystemSource = 0
  /\ a.activeCompositeSource = "excalidraw"

\* C7: as a composite stopRecording returns, whichever output it kept, the
\* WebCodecs handle, the MediaRecorder handle and its stream, the display
\* capture and the nodes of the audio mix are null, the tracks of the
\* fallback stream and of the display capture are stopped, and the active
\* visual source is 'excalidraw'.
C7_StopReleasesEverything ==
  [][(StopCompletes /\ StoppingSource = "composite")
        => CompositeReleased(app')]_vars

RecorderStopPcs == {"videoFlush", "audioFlush", "wcClose"}

\* the device and graph resources of the WebCodecsRecorder are let go of
RecorderReleased(r) ==
  /\ r.scriptProcessorNode = "null" /\ r.mediaStreamSource = "null"
  /\ r.audioContext = "null"
  /\ r.audioEncoder = "null" /\ r.videoEncoder = "null"

\* C8: once WebCodecsRecorder.stop() has settled, by returning the blob or
\* by failing in the video flush, the audio flush or the finalize, the
\* recorder's script processor, stream source, AudioContext and both
\* encoders are released and null.
C8_RecorderStopAlwaysReleases ==
  (~app.rec.isRecording /\ stop.pc \notin RecorderStopPcs)
     => RecorderReleased(app.rec)

\* the refs a failed attach must leave alone
SourceFrame(a) ==
  [ source |-> a.activeCompositeSource, stream |-> a.displayCaptureStream,
    streams |-> a.streams, system |-> a.compositeSystemSource,
    connections |-> a.systemConnections ]

\* this step is call i of attachCompositeDisplaySource ending without a
\* stream adopted
AttachFailsStep(i) ==
  attach'[i] # attach[i] /\ attach[i].pc # "play" /\ attach'[i].pc = "idle"

\* C9: a call of attachCompositeDisplaySource that fails (no getDisplayMedia,
\* request denied or throwing, no live video track) returns false and
\* leaves the active visual source, the display stream held and the
\* system-audio connection as they were.
C9_FailedAttachChangesNothing ==
  [][\A i \in AttachIds :
        AttachFailsStep(i) =>
           /\ attach'[i].result = "false"
           /\ SourceFrame(app') = SourceFrame(app)]_vars

\* C9 witness: a call failed while a display capture was the active source,
\* and the capture is still held, live and listened to
C9_Witness ==
  \E i \in AttachIds :
     /\ attach[i].result = "false"
     /\ app.activeCompositeSource = "display"
     /\ app.displayCaptureStream # 0
     /\ app.streams[app.displayCaptureStream].track = "live"
     /\ app.streams[app.displayCaptureStream].onended

\* the video track of display stream id ends in this step, the stream
\* being the active source of a composite session that is Recording or
\* Paused (and rendered as such): the switch to it is complete,
\* attachCompositeDisplaySource has installed its 'ended' listener and
\* made 'display' the active source
DisplayEndsWhileRecording(id) ==
  /\ app.streams[id].track = "live" /\ app'.streams[id].track = "ended"
  /\ app.streams[id].onended
  /\ app.displayCaptureStream = id
  /\ app.activeCompositeSource = "display"
  /\ app.activeRecordingSource = "composite"
  /\ app.isRecording /\ view.isRecording

C11_AtMostOneSourceOfEachKind ==
  /\ app.micConnections \in {0, 1}
  /\ app.systemConnections \in {0, 1}
  /\ app.compositeMicSource <=> app.micConnections = 1
  /\ app.compositeSystemSource # 0 <=> app.systemConnections = 1
  /\ (hist.last = "attach" /\ hist.returned) => app.systemConnections = 1

\* C11 witness: a system track was attached while another was attached
C11_Witness ==
  /\ hist.last = "attach" /\ hist.returned
  /\ hist.prev = "attach" /\ hist.prevReturned
  /\ app.systemConnections = 1 /\ app.micConnections = 1


\* C12: pause() twice leaves the recorder as pause() once does, and so
\* does resume(); on a recorder that is not recording (before start(),
\* after stop()) neither changes anything.
C12_PauseResumeIdempotent ==
  LET r == app.rec IN
  /\ pause(pause(r)) = pause(r)
  /\ resume(resume(r)) = resume(r)
  /\ ~r.isRecording => pause(r) = r /\ resume(r) = r
  /\ hist.last = "pause" => pause(r) = r
  /\ hist.last = "resume" => resume(r) = r

\* C12 witness: pause() has just paused a recorder with frames submitted
C12_Witness ==
  /\ hist.last = "pause" /\ app.rec.isRecording /\ app.rec.isPaused
  /\ Len(hist.frames) > 0


\* C13: the recorder's frame count is the number of addFrame calls made
\* while it was recording and not paused, at stop and at every moment
\* before: a call or an audio buffer that arrives while paused hands
\* nothing to an encoder and moves neither frameCount nor audioTimestamp.
C13_FrameCountCountsActiveCalls ==
  /\ app.rec.frameCount = hist.activeCalls
  /\ app.rec.audioTimestamp = hist.activeBuffers
  /\ Len(hist.frames) =
       IF hist.activeCalls > warmupFrames
       THEN hist.activeCalls - warmupFrames ELSE 0

\* C13 witness: 25 addFrame calls, 5 of them while paused, then stop()
C13_Witness ==
  /\ hist.phase = "stopped" /\ hist.last = "stop"
  /\ hist.calls = 25 /\ hist.activeCalls = 20
  /\ app.rec.frameCount = 20
  /\ hist.buffers = 2 /\ hist.activeBuffers = 1

\* C14: the k-th frame handed to the video encoder (k = 0, 1, ...) carries
\* the timestamp k * 1,000,000 / frameRate in whole microseconds: the
\* first one 0, each one later than the one before, and no gap where the
\* recorder was paused.
C14_TimestampsFollowSubmissionOrder ==
  \A k \in 1..Len(hist.frames) :
     /\ hist.frames[k].timestamp = ((k - 1) * 1000000) \div app.rec.frameRate
     /\ k > 1 => hist.frames[k].timestamp > hist.frames[k - 1].timestamp

\* C14 witness: frames were submitted before and after a pause
C14_Witness ==
  /\ Len(hist.frames) >= 3
  /\ hist.calls > hist.activeCalls
  /\ hist.last = "addFrame" /\ ~app.rec.isPaused /\ app.rec.isRecording
  /\ hist.frames[1].timestamp = 0

\* C15: a frame handed to the video encoder is asked to be a keyframe
\* exactly when its index after warmup is 0 or a multiple of 2 * frameRate.
C15_KeyframeEveryTwoSeconds ==
  \A k \in 1..Len(hist.frames) :
     /\ hist.frames[k].index = k - 1
     /\ hist.frames[k].keyFrame <=>
          (k - 1 = 0 \/ (k - 1) % (2 * app.rec.frameRate) = 0)

\* C15 witness: a second keyframe and a frame that is none
C15_Witness ==
  \E k \in 2..Len(hist.frames) :
     /\ hist.frames[k].keyFrame
     /\ ~hist.frames[k - 1].keyFrame


\* C16: for every positive width and height the target video bitrate,
\* min(24,000,000, max(10,000,000, round(width * height * 30 / 5))), lies
\* between 10,000,000 and 24,000,000, in composite and in desktop mode.
C16_BitrateWithinLimits ==
  hist.mode # "none" =>
    /\ hist.bitrate >= 10000000 /\ hist.bitrate <= 24000000
    /\ hist.width * hist.height * 6 >= 24000000 => hist.bitrate = 24000000
    /\ hist.width * hist.height * 6 <= 10000000 => hist.bitrate = 10000000
    /\ (hist.width * hist.height * 6 \in 10000000..24000000)
         => hist.bitrate = hist.width * hist.height * 6

\* C16 witness: a desktop capture of 1920 x 1080, strictly inside the limits
C16_Witness ==
  /\ hist.mode = "desktop" /\ hist.width = 1920 /\ hist.height = 1080
  /\ hist.bitrate = 12441600


\* the encoder paths that are running
WebCodecsActive(a) == a.webCodecsRecorderRef /\ a.rec.isRecording
MediaRecorderActive(a) == a.mediaRecorder \in {"recording", "paused"}

\* the paused flags of the session and of its running paths agree
PausedInLockstep(a) ==
  /\ WebCodecsActive(a) => (a.rec.isPaused <=> a.isPaused)
  /\ MediaRecorderActive(a) => (a.mediaRecorder = "paused" <=> a.isPaused)

\* C17: while the session is Recording or Paused, whatever togglePause
\* calls were made, the session's paused flag, the WebCodecsRecorder's and
\* the MediaRecorder's state agree for every running path, and a second
\* call made with the same closure (before isPaused is read again) changes
\* nothing.
C17_PauseInLockstep ==
  app.isRecording =>
    /\ PausedInLockstep(app)
    /\ view.isRecording =>
         LET t == togglePause(app, view.isPaused) IN
         /\ PausedInLockstep(t)
         /\ togglePause(t, view.isPaused) = t

\* the rest of C17, in a composite session: the tick loop stays scheduled,
\* paused or not
TickLoopScheduled ==
  (app.isRecording /\ view.isRecording) =>
     (app.startTimer \/ app.rafQueued > 0)

\* stopRecording of a session has begun and no session records
SessionLeftRecording ==
  hist.session > 0 /\ ~app.isRecording /\ ~app.isRecordingRef

\* C18: once stopRecording has begun, renderCompositeFrame is not run any
\* more to composite the surface or to hand a frame to the recorder:
\* neither by a callback that requestAnimationFrame still holds nor by
\* the three calls of confirmRecording's 100 ms timeout.
C18_NoFrameAfterStop ==
  [][SessionLeftRecording => ~(StartTimerFires \/ AnimationFrame)]_vars

\* what of C18 the code keeps: no frame reaches the recorder after the stop
C18_NoFrameToRecorderAfterStop ==
  [][SessionLeftRecording =>
       app'.rec.frameCount = app.rec.frameCount]_vars


\* C19: stop() fails, and gives no blob, when the recorder was never
\* started and when it was started but no frame was ever handed to the
\* encoder (no addFrame call, or only warmup and paused ones).
C19_StopFailsWithoutFrames ==
  hist.last = "stop" =>
    /\ hist.phase = "new" => hist.result = "error"
    /\ Len(hist.frames) = 0 => hist.result = "error"

\* what of C19 the code keeps: stop() on a recorder that is not recording
\* (never started, or stopped already) fails
C19_StopFailsWhenNotStarted ==
  (hist.last = "stop" /\ hist.phase = "new") => hist.result = "error"

\* C20: no operation ever calls stop() on a track of the webcam/microphone
\* stream that the application shares with the preview: the recorder
\* streams whose tracks are stopped carry clones of it, mix destination
\* tracks or tracks the recording acquired itself.
C20_SharedTrackNeverStopped ==
  /\ ~app.webcamTrackStopped
  /\ app.fallbackAudioTrack # "shared"

\* a desktop session recorded a clone of the webcam stream's microphone
\* track and the tracks of its recorder stream have been stopped
C20_Witness ==
  /\ hist.session > 0
  /\ app.fallbackAudioTrack = "cloneOfShared"
  /\ app.fallbackTracks = "stopped"
  /\ ~app.mediaRecorderStreamRef


\* C21: while the recording flag is true, every call of
\* renderCompositeFrame asks for a next callback before it returns,
\* whichever exit it takes: no canvas or no context, skipped by the
\* frame-rate gate, or composited to the end.
C21_EveryExitReschedules ==
  /\ \A e \in hist.exits : e[2]
  /\ hist.tick.recording => hist.tick.rescheduled

\* a recording session whose calls have taken all three exits
C21_Witness ==
  /\ { e[1] : e \in hist.exits } = {"nocanvas", "skipped", "composited"}
  /\ hist.tick.recording /\ hist.tick.rescheduled


\* C22: while recording, two consecutive calls of renderCompositeFrame that
\* composite the surface and hand a frame to the recorder are at least
\* 1000/30 ms apart, and a call that comes sooner after the last such call
\* is skipped: it neither composites nor hands a frame over.
C22_SubmittedFramesIntervalApart ==
  hist.tick.recording =>
    /\ hist.tick.submitted =>
         (hist.tick.since = -1 \/ ~WithinFrameInterval(hist.tick.since))
    /\ (hist.tick.since # -1 /\ WithinFrameInterval(hist.tick.since)) =>
         hist.tick.exit # "composited"

\* C22 as the code has it: the same, among the calls made by
\* requestAnimationFrame; the three calls of preRenderFrames carry no
\* timestamp, pass the gate and leave lastRenderTimestampRef alone.
C22_AnimationFramesIntervalApart ==
  (hist.tick.recording /\ hist.tick.viaRaf) =>
    /\ hist.tick.submitted =>
         (hist.tick.sinceRaf = -1 \/ ~WithinFrameInterval(hist.tick.sinceRaf))
    /\ (hist.tick.sinceRaf # -1 /\ WithinFrameInterval(hist.tick.sinceRaf)) =>
         hist.tick.exit # "composited"

\* C22 witness: a callback that came 17 ms after the last one that handed
\* a frame over was skipped
C22_Witness ==
  /\ hist.tick.recording /\ hist.tick.viaRaf
  /\ hist.tick.sinceRaf = 17
  /\ hist.tick.exit = "skipped" /\ ~hist.tick.submitted


\* the frames handed to videoEncoder.encode so far; the encoder's output
\* callback passes every chunk on to the muxer (lines 79-82)
FramesEncoded == Len(hist.frames)

\* the warmup calls made so far: the first warmupFrames calls of addFrame
\* that came while recording and not paused
WarmupCalls ==
  IF hist.activeCalls < warmupFrames THEN hist.activeCalls ELSE warmupFrames

\* C23: the first warmupFrames (5) frames passed to addFrame are fed to the
\* video encoder for warmup but are not muxed, and they do not advance the
\* output timestamps: every active call reaches the encoder, and the
\* first muxed frame is the sixth, at timestamp 0.
C23_WarmupFedNotMuxed ==
  /\ FramesEncoded = hist.activeCalls
  /\ Len(hist.frames) > warmupFrames =>
       hist.frames[warmupFrames + 1].timestamp = 0

\* C23 as the code has it: the first warmupFrames (5) frames passed to
\* addFrame are counted but never handed to the video encoder, so they are
\* not muxed and do not advance the output timestamps; the sixth is the
\* first frame encoded, at timestamp 0.
C23_WarmupSkipped ==
  /\ FramesEncoded = hist.activeCalls - WarmupCalls
  /\ Len(hist.frames) > 0 => hist.frames[1].timestamp = 0

\* C23 witness: the call after the warmup has just encoded the first frame
C23_Witness ==
  /\ hist.last = "addFrame"
  /\ hist.activeCalls = warmupFrames + 1
  /\ Len(hist.frames) = 1
  /\ hist.frames[1].timestamp = 0


\* the candidates whose probe reports supported
Supported == { i \in 1..Len(candidates) : hist.env.probe[i] = "supported" }

\* the first of them in list order
FirstSupported ==
  candidates[CHOOSE i \in Supported : \A j \in Supported : i <= j]

AudioProbed ==
  /\ hist.env.audioEncoderDefined
  /\ hist.env.audioStream = "live"
  /\ hist.env.audioProbe = "supported"

\* no audio encoder and no audio graph in the recorder r
NoAudioObjects(r) ==
  /\ r.audioEncoder = "null" /\ r.audioContext = "null"
  /\ r.mediaStreamSource = "null" /\ r.scriptProcessorNode = "null"

\* hasAudio has been decided (line 60)
AudioDecided == hist.pc \in {"flush", "setup", "done"} /\ hist.failedAt # "select"

EndedListenerRuns(id) ==
  /\ app.streams[id].track = "live" /\ app'.streams[id].track = "ended"
  /\ app.streams[id].onended

\* C26: the 'ended' listener of the display track does not itself change
\* the active visual source or release the capture: when it returns, the
\* source and the stream held are as they were, the switch comes in a
\* later step.
C26_EndedListenerOnlySchedules ==
  [][\A id \in StreamIds :
        EndedListenerRuns(id) =>
           /\ app'.activeCompositeSource = app.activeCompositeSource
           /\ app'.displayCaptureStream = app.displayCaptureStream]_vars

\* C26 as the code has it: the 'ended' listener of the display track is a
\* task of its own and does the switch itself before it returns: the
\* capture it belongs to is released with its listener removed and its
\* system audio detached, a recording composite session is on
\* 'excalidraw', and no call is left suspended or scheduled by it.
C26_EndedListenerSwitchesInline ==
  [][\A id \in StreamIds :
        (EndedListenerRuns(id) /\ app.displayCaptureStream = id) =>
           /\ app'.displayCaptureStream = 0
           /\ ~app'.streams[id].onended
           /\ app'.compositeSystemSource = 0
           /\ (app.isRecordingRef /\ app.activeRecordingSource = "composite")
                => app'.activeCompositeSource = "excalidraw"
           /\ attach' = attach /\ stop' = stop /\ confirm' = confirm
           /\ desktop' = desktop]_vars

\* C26 witness: the listener has run in a session that records and is not
\* paused: 'excalidraw' is active and nothing is held, with no call of
\* attachCompositeDisplaySource under way
C26_Witness ==
  \E id \in StreamIds :
     /\ app.streams[id].track = "ended" /\ ~app.streams[id].onended
     /\ app.activeCompositeSource = "excalidraw"
     /\ app.displayCaptureStream = 0
     /\ app.isRecordingRef /\ ~app.isPaused
     /\ \A i \in AttachIds : attach[i].pc = "idle"


\* the video track of display stream id ends in this step
TrackEnds(id) ==
  app.streams[id].track = "live" /\ app'.streams[id].track = "ended"

\* C27: the automatic switch back to the drawing surface happens only in a
\* session that still records, for the display capture that is held and
\* active: when the track that ends belongs to a stream replaced by a
\* later switch, or the drawing surface is already active, the active
\* source stays and the display stream held is not released.
C27_OnlyTheActiveCaptureFallsBack ==
  [][\A id \in StreamIds :
        TrackEnds(id) =>
           /\ app'.activeCompositeSource # app.activeCompositeSource =>
                /\ app.isRecordingRef
                /\ app.displayCaptureStream = id
                /\ app.activeCompositeSource = "display"
                /\ app'.activeCompositeSource = "excalidraw"
           /\ (app.displayCaptureStream # id
                  \/ app.activeCompositeSource = "excalidraw") =>
                /\ app'.activeCompositeSource = app.activeCompositeSource
                /\ app'.displayCaptureStream = app.displayCaptureStream
                /\ \A other \in StreamIds \ {id} :
                      app'.streams[other] = app.streams[other]]_vars

\* C27 witness: a second capture replaced the first, whose tracks were
\* stopped and whose listener was removed; the second one is held, live
\* and active
C27_Witness ==
  /\ app.isRecordingRef
  /\ app.streams[1].track = "stopped" /\ ~app.streams[1].onended
  /\ app.displayCaptureStream = 2
  /\ app.streams[2].track = "live" /\ app.streams[2].onended
  /\ app.activeCompositeSource = "display"


\* C27, while the session records: the same statement about the track
\* 'ended' events that arrive while isRecordingRef is set
C27_WhileRecording ==
  [][\A id \in StreamIds :
        (TrackEnds(id) /\ app.isRecordingRef) =>
           /\ app'.activeCompositeSource # app.activeCompositeSource =>
                /\ app.displayCaptureStream = id
                /\ app.activeCompositeSource = "display"
                /\ app'.activeCompositeSource = "excalidraw"
           /\ (app.displayCaptureStream # id
                  \/ app.activeCompositeSource = "excalidraw") =>
                /\ app'.activeCompositeSource = app.activeCompositeSource
                /\ app'.displayCaptureStream = app.displayCaptureStream
                /\ \A other \in StreamIds \ {id} :
                      app'.streams[other] = app.streams[other]]_vars


\* a compositor tick that composed a frame
TickComposited == hist.tick.exit = "composited"

\* C28: every composited tick draws exactly one visual source, the active
\* one: display capture and no whiteboard while 'display' is active,
\* and no text-edit overlay while 'display' is active.
C28_DrawsExactlyTheActiveSource ==
  TickComposited =>
    /\ hist.tick.drew = { hist.tick.active }
    /\ hist.tick.active = "display" => ~hist.tick.overlay

\* C28 as the code has it: a composited tick draws at most one visual
\* source; it draws the display capture, without whiteboard and without
\* text overlay, exactly when 'display' is active and the display video
\* has a frame to give; otherwise it never draws the display capture, and
\* what it draws is the whiteboard (with the overlay when text is edited).
C28_DrawsDisplayWhenReady ==
  TickComposited =>
    /\ Cardinality(hist.tick.drew) <= 1
    /\ (hist.tick.active = "display" /\ hist.tick.videoReady)
         => (hist.tick.drew = {"display"} /\ ~hist.tick.overlay)
    /\ ~(hist.tick.active = "display" /\ hist.tick.videoReady)
         => (hist.tick.drew \subseteq {"excalidraw"}
              /\ (hist.tick.overlay => hist.tick.drew = {"excalidraw"}))

\* C28 witness: a tick composed a frame while 'display' was active and the
\* display video had no frame yet: the whiteboard and the text being
\* typed were drawn
C28_Witness ==
  /\ TickComposited
  /\ hist.tick.active = "display" /\ ~hist.tick.videoReady
  /\ hist.tick.drew = {"excalidraw"} /\ hist.tick.overlay

\* a tick composed a frame from the display capture
C28_DisplayDrawn ==
  /\ TickComposited
  /\ hist.tick.active = "display" /\ hist.tick.drew = {"display"}


\* a step of attachCompositeDisplaySource: its start, the settling of
\* getDisplayMedia or the settling of play()
AttachStep == attach' # attach

\* a step in which switchCompositeToExcalidraw leaves 'display', called
\* by the control or by the 'ended' listener: no session-start or stop
\* call moves, nothing is handed over and nothing is rendered
SwitchStep ==
  /\ app.activeCompositeSource = "display"
  /\ app'.activeCompositeSource = "excalidraw"
  /\ stop' = stop /\ confirm' = confirm /\ desktop' = desktop
  /\ hist' = hist /\ view' = view

\* C29: switchCompositeToExcalidraw and attachCompositeDisplaySource,
\* succeeding or failing, leave the recording and paused flags, the
\* WebCodecsRecorder and the MediaRecorder (state, chunks) as they were.
C29_SwitchLeavesEncodersAlone ==
  [][(AttachStep \/ SwitchStep) =>
        /\ app'.isRecording = app.isRecording
        /\ app'.isRecordingRef = app.isRecordingRef
        /\ app'.isPaused = app.isPaused
        /\ app'.webCodecsRecorderRef = app.webCodecsRecorderRef
        /\ app'.rec = app.rec
        /\ app'.mediaRecorder = app.mediaRecorder
        /\ app'.mediaRecorderChunks = app.mediaRecorderChunks
        /\ app'.dataEvents = app.dataEvents]_vars

\* C29 witness: a display capture was attached with success in a session
\* whose recorders are running and have taken data
C29_Witness ==
  /\ \E i \in AttachIds : attach[i].result = "true"
  /\ app.activeCompositeSource = "display"
  /\ app.isRecordingRef /\ app.webCodecsRecorderRef /\ app.rec.isRecording
  /\ app.mediaRecorder = "recording"
  /\ app.mediaRecorderChunks # << >>


\* call i of attachCompositeDisplaySource returns true in this step
AttachSucceeds(i) == attach[i].pc = "play" /\ attach'[i].result = "true"

\* C30: when attachCompositeDisplaySource succeeds, every display stream
\* held before has its tracks stopped and its 'ended' listener removed,
\* the new stream is the only display stream held, the active visual
\* source is 'display' and the new stream's video track has an 'ended'
\* listener.
C30_SuccessfulAttachHoldsNewStream ==
  [][\A i \in AttachIds :
        AttachSucceeds(i) =>
           LET id == attach[i].stream IN
           /\ app'.displayCaptureStream = id
           /\ app'.activeCompositeSource = "display"
           /\ app'.streams[id].onended
           /\ \A other \in StreamIds \ {id} :
                 /\ app'.streams[other].track # "live"
                 /\ ~app'.streams[other].onended]_vars

\* C30 in a session that records with no stop under way: the stream the
\* call was granted is the one held when it returns true.  It fails when
\* switchCompositeToExcalidraw runs while play() is pending and the
\* source active before was 'display'
C30_WhileRecording ==
  [][\A i \in AttachIds :
        (AttachSucceeds(i) /\ app.isRecordingRef /\ stop.pc = "idle") =>
           app'.displayCaptureStream = attach[i].stream]_vars

\* C30, what holds of every successful attach made one at a time: the
\* active visual source is 'display', the stream it was granted carries
\* the listener and is the one held unless it was released meanwhile, and
\* no other stream is left with live tracks or a listener
C30_AttachLeavesNoOtherStreamLive ==
  [][\A i \in AttachIds :
        AttachSucceeds(i) =>
           LET id == attach[i].stream IN
           /\ app'.activeCompositeSource = "display"
           /\ app'.streams[id].onended
           /\ app'.displayCaptureStream \in {0, id}
           /\ \A other \in StreamIds \ {id} :
                 /\ app'.streams[other].track # "live"
                 /\ ~app'.streams[other].onended]_vars


\* stopMediaRecorder has resolved and stopRecording has handed over
FallbackDelivered == hist.session = 1 /\ hist.outcomes[1] # << >>

\* what was handed over
FallbackOutcome == hist.outcomes[1][1]

\* C31: stopMediaRecorder resolves with one blob of all the non-empty
\* chunks received, in arrival order, those fired between the stop request
\* and the 'stop' event included; it resolves with null exactly when there
\* is no recorder, no non-empty chunk arrived or the stop request threw;
\* and on every path the fallback stream's tracks are stopped and the
\* recorder and stream handles are null.
C31_BlobOfAllChunksInOrder ==
  FallbackDelivered =>
    /\ FallbackOutcome.blob # << >> => FallbackOutcome.blob = hist.received
    /\ FallbackOutcome.blob = << >> <=>
          \/ "mediarecorder" \notin FallbackOutcome.started
          \/ hist.received = << >>
          \/ FallbackOutcome.stopThrew
    /\ app.mediaRecorder = "null"
    /\ ~app.mediaRecorderStreamRef
    /\ app.fallbackTracks # "live"

\* C31 witness: the blob handed over holds three chunks, the last of them
\* fired after the stop request
C31_Witness ==
  /\ FallbackDelivered
  /\ Len(FallbackOutcome.blob) = 3
  /\ hist.late


\* the states of the session, as the flags give them
Idle(a) == ~a.isRecording /\ ~a.isPreviewing /\ ~a.isConverting
Previewing(a) == a.isPreviewing /\ ~a.isRecording
Recording(a) == a.isRecording

\* C32: with recordingSource 'desktop' startRecording goes from Idle to
\* Recording without entering Previewing, or stays Idle when the capture
\* is denied, has no live video track or the MediaRecorder does not
\* start; with 'composite' Recording is entered from Idle only through
\* Previewing followed by confirmRecording, and cancelPreview returns to
\* Idle.
C32_StartPaths ==
  [][/\ \* startDesktopCaptureRecording runs from Idle and never previews
        desktop'.pc = "pick" => (Idle(app) /\ Idle(app'))
     /\ \* when it settles the session records or is Idle as before
        (desktop.pc = "pick" /\ desktop'.pc = "idle") =>
           \/ /\ Recording(app') /\ ~app'.isPreviewing
              /\ app'.activeRecordingSource = "desktop"
              /\ app'.mediaRecorder = "recording"
           \/ /\ Idle(app') /\ app'.mediaRecorder # "recording"
     /\ \* a desktop session starts in startDesktopCaptureRecording only
        (~Recording(app) /\ Recording(app')
           /\ app'.activeRecordingSource = "desktop") => desktop.pc = "pick"
     /\ \* a composite session starts in confirmRecording only
        (~Recording(app) /\ Recording(app')
           /\ app'.activeRecordingSource = "composite") =>
              (Previewing(app) \/ confirm.pc # "idle")
     /\ \* confirmRecording is started from Previewing only
        (confirm.pc = "idle" /\ confirm'.pc # "idle") => Previewing(app)
     /\ \* Previewing is entered from Idle, by startRecording on 'composite'
        (~app.isPreviewing /\ app'.isPreviewing) =>
           (Idle(app) /\ app.settings.recordingSource = "composite"
              /\ desktop.pc = "idle")
     /\ \* cancelPreview: Previewing is left for Idle unless confirmRecording
        \* took the session on
        (Previewing(app) /\ ~app'.isPreviewing /\ confirm'.pc = "idle"
           /\ ~Recording(app')) => Idle(app')]_vars

\* C32 witness: a desktop session records
C32_Witness ==
  /\ Recording(app) /\ app.activeRecordingSource = "desktop"
  /\ app.mediaRecorder = "recording" /\ hist.session = 1


\* C33: after enterPreviewMode and after every drag or resize of the
\* recording frame during preview the camera bubble lies inside the
\* recording frame, for every webcam size from 100 to 300 and every frame
\* the preview can reach (width down to 200).
C33_BubbleInsideFrame ==
  hist.isPreviewing =>
    BubbleInside(hist.bubblePosition, hist.webcamSize, hist.recordingFrame)

\* C33 for the frames that have room for the bubble
C33_BubbleInsideRoomyFrame ==
  (hist.isPreviewing /\ hist.webcamSize <= hist.recordingFrame.width
     /\ hist.webcamSize <= hist.recordingFrame.height) =>
    BubbleInside(hist.bubblePosition, hist.webcamSize, hist.recordingFrame)

\* a resize took the frame to its least width with the bubble snapped
C33_Witness ==
  /\ hist.isPreviewing /\ hist.moves > 0
  /\ hist.recordingFrame.width = MinFrameWidth
  /\ hist.webcamSize = 100
  /\ BubbleInside(hist.bubblePosition, hist.webcamSize, hist.recordingFrame)


\* no call of confirmRecording, startDesktopCaptureRecording or
\* stopRecording is suspended
NoCallInFlight ==
  confirm.pc = "idle" /\ desktop.pc = "idle" /\ stop.pc = "idle"

\* no part of the composite audio mix is allocated
NoCompositeAudio(a) ==
  /\ ~a.compositeAudioContext
  /\ ~a.compositeAudioDestination
  /\ ~a.compositeMicSource
  /\ a.compositeSystemSource = 0

\* C34: whenever the session is Idle no composite audio mix context is
\* allocated, after a normal finalize and also after confirmRecording
\* aborted because neither encoder path started: no audio context,
\* destination or microphone node is left behind.
C34_IdleHoldsNoAudioContext ==
  (Idle(app) /\ NoCallInFlight) => NoCompositeAudio(app)

\* C34 after a normal finalize: Idle once a session has handed over
C34_IdleAfterFinalize ==
  (Idle(app) /\ NoCallInFlight
     /\ hist.session > 0 /\ hist.outcomes[hist.session] # << >>)
     => NoCompositeAudio(app)


\* the session is Idle after a stopRecording that ran to its end
IdleAfterStop ==
  /\ Idle(app) /\ NoCallInFlight
  /\ hist.session > 0 /\ hist.outcomes[hist.session] # << >>

\* C35: whenever the session is Idle after a stopRecording has completed
\* no display-capture stream is held and the active visual source is
\* 'excalidraw', for every interleaving: also when an
\* attachCompositeDisplaySource started during recording is still waiting
\* for getDisplayMedia or play() while stopRecording runs and completes.
C35_IdleHoldsNoDisplayCapture ==
  IdleAfterStop =>
    /\ app.displayCaptureStream = 0
    /\ app.activeCompositeSource = "excalidraw"
    /\ \A id \in StreamIds : app.streams[id].track # "live"

\* C35 for the sessions in which attachCompositeDisplaySource was not
\* called
C35_WithoutPendingAttach ==
  (IdleAfterStop /\ \A i \in AttachIds : attach[i] = IdleAttach) =>
    /\ app.displayCaptureStream = 0
    /\ app.activeCompositeSource = "excalidraw"
    /\ \A id \in StreamIds : app.streams[id].track # "live"


\* C36: at most one compositor tick callback is pending at any time of a
\* session: the pre-render calls, the requestAnimationFrame of the
\* start-up timer and each tick's own rescheduling never leave two
\* self-rescheduling chains, so the handle stopRecording cancels is the
\* only pending tick.
C36_AtMostOneTickPending == app.rafQueued <= 1

\* C36 as far as it goes: no more than four callbacks are pending
C36_AtMostFourTicksPending == app.rafQueued <= 4

\* C37: once a composite session records, the tick loop starts and stays
\* alive until stopRecording begins: the session is never Recording or
\* Paused, with no stop begun and the start-up timer fired, while no tick
\* is pending, whatever the order of the timer and the effect that copies
\* isRecording into isRecordingRef.
C37_TickLoopAlive ==
  (app.isRecording /\ app.activeRecordingSource = "composite"
     /\ stop.pc = "idle" /\ ~app.startTimer)
    => app.rafQueued > 0


\* a composite session starts in this step
CompositeSessionStarts ==
  /\ hist'.session = hist.session + 1
  /\ app'.activeRecordingSource = "composite"

\* C38: every composite session starts with the active visual source
\* 'excalidraw', no display-capture stream held, no system-audio
\* connection and both encoder paths unpaused, whatever the session
\* before did.
C38_SessionStartsClean ==
  [][CompositeSessionStarts =>
        /\ app'.activeCompositeSource = "excalidraw"
        /\ app'.displayCaptureStream = 0
        /\ app'.compositeSystemSource = 0
        /\ app'.webCodecsRecorderRef => ~app'.rec.isPaused
        /\ app'.mediaRecorder # "paused"]_vars

\* C38 where attachCompositeDisplaySource was not called: the session
\* before was stopped recording or paused, with or without output
C38_StartsCleanWithoutLateAttach ==
  [][(CompositeSessionStarts
        /\ \A i \in AttachIds : attach[i] = IdleAttach) =>
        /\ app'.activeCompositeSource = "excalidraw"
        /\ app'.displayCaptureStream = 0
        /\ app'.compositeSystemSource = 0
        /\ app'.webCodecsRecorderRef => ~app'.rec.isPaused
        /\ app'.mediaRecorder # "paused"]_vars


\* C39: whenever a system-audio source is connected to the mix
\* destination its track belongs to the display-capture stream held, for
\* every interleaving of two attachCompositeDisplaySource calls under way
\* at once: an earlier call that resumes late never puts a track of the
\* stream already released in the place of the newer stream's audio.
C39_SystemAudioOfHeldStream ==
  app.compositeSystemSource # 0 =>
    app.compositeSystemSource = app.displayCaptureStream

\* C39 witness: the later call has replaced the earlier call's stream and
\* connected its own system audio; the earlier call has resumed after
\* that and returned
C39_Witness ==
  /\ attach[1].result = "true" /\ attach[2].result = "true"
  /\ app.streams[1].track = "stopped" /\ app.streams[1].onended
  /\ app.displayCaptureStream = 2
  /\ app.compositeSystemSource = 2


\* C38, the encoder paths: both start unpaused in every composite session
C38_EncodersStartUnpaused ==
  [][CompositeSessionStarts =>
        /\ app'.webCodecsRecorderRef => ~app'.rec.isPaused
        /\ app'.mediaRecorder # "paused"]_vars

=============================================================================
